---- MODULE Spec2Model ----
(***************************************************************************)
(* Model of the Terminal core of Far-NetBox (src/src/core/Terminal.cpp):   *)
(* the synchronization engine (collect + apply), the retry handling of    *)
(* failed commands with session actions, remote delete with recycle bin,  *)
(* overwrite confirmation, the transaction manager, the session lifecycle *)
(* (open, close, reopen, tunnel), the directory cache, the directory      *)
(* change cache, the tunnel UI and the secondary terminal.                *)
(*                                                                         *)
(* Each part of the Terminal has its own variables and its own             *)
(* specification; a specification leaves the variables of the other parts  *)
(* untouched.                                                              *)
(***************************************************************************)
EXTENDS Integers, Sequences, FiniteSets, TLC

VARIABLES
  \* ---- synchronization engine ----
  syPc,         \* "idle" | "collected" | "applying" | "done" | "aborted" | "raised"
  syLocal,      \* local tree : directory -> (name -> entry)
  syRemote,     \* remote tree: directory -> (name -> entry)
  syMode,       \* TSynchronizeMode of the run
  syParams,     \* set of sp* flags of the run
  syRaw,        \* checklist as appended by the walk, before Checklist->Sort()
  syChecklist,  \* TSynchronizeChecklist::FList
  syIndex,      \* IIndex of SynchronizeApply
  syStage,      \* next bulk operation of the current group
  syGroup,      \* number of the group being applied
  syLists,      \* DownloadList, DeleteRemoteList, UploadList, DeleteLocalList
  syCalls,      \* bulk operations invoked so far, in order
  syInTransaction, \* transaction opened by SynchronizeApply is still open
  \* ---- retry handling and session actions ----
  rtPc,         \* "idle" | "running" | "returned" | "raised"
  rtProgress,   \* TFileOperationProgressType of the operation (or none)
  rtExceptionOnFail, \* FExceptionOnFail > 0
  rtActions,    \* the session actions opened by the operation
  rtLast,       \* how the last failure was handled
  \* ---- remote delete and recycle bin ----
  dlPc,         \* "idle" | "returned" | "raised"
  dlSession,    \* recycle-bin settings of the descriptor, current directory
  dlCall,       \* arguments of the last DeleteFile
  dlLog,        \* what the last DeleteFile asked of the backend
  \* ---- overwrite confirmation ----
  cfBatchOverwrite,     \* OperationProgress->BatchOverwrite
  cfConfirmOverwriting, \* Configuration->GetConfirmOverwriting()
  cfParams,             \* cp* flags of the transfer the progress belongs to
  cfLast,               \* the last ConfirmFileOverwrite call and its answer
  \* ---- transactions ----
  trInTransaction,              \* FInTransaction
  trReadCurrentDirectoryPending, \* FReadCurrentDirectoryPending
  trReadDirectoryPending,       \* FReadDirectoryPending
  trActive,                     \* GetActive()
  trAutoReadDirectory,          \* GetAutoReadDirectory()
  trSuspendTransaction,         \* FSuspendTransaction
  trCommandSession,             \* FCommandSession: whether it exists, its FInTransaction
  trLast,                       \* the last operation and the rereads it issued
  \* ---- session lifecycle ----
  ssStatus,                \* FStatus
  ssFileSystem,            \* FFileSystem: "null" | "inactive" | "active"
  ssFSProtocol,            \* FFSProtocol
  ssTunnel,                \* FTunnelThread, FTunnel, FTunnelUI, FTunnelLog, FTunnelData, port
  ssDirectoryChangesCache, \* FDirectoryChangesCache: "null" | "empty" | "learned"
  ssFilesDirectory,        \* FFiles->GetDirectory()
  ssCurrentDirectory,      \* the current directory as last read
  ssServerDirectory,       \* the directory the server's session is in
  ssLastDirectoryChange,   \* FLastDirectoryChange is set
  ssData,                  \* FSessionData
  ssConfiguration,         \* FConfiguration
  ssExceptionOnFail,       \* FExceptionOnFail
  ssAsked,                 \* reopen prompts since the last successful open
  ssLast,                  \* the last lifecycle operation and what it did
  \* ---- directory cache ----
  dcCache,       \* FDirectoryCache: directory -> "none" | "old" | "new"
  dcSession,     \* cache settings, current directory, auto-read settings
  dcLast,        \* the last mutating operation
  \* ---- directory change cache ----
  cdBackend,      \* the backend's current directory and cached change
  cdChangesCache, \* FDirectoryChangesCache: <<from, request>> -> resolved
  cdTerminal,     \* FStatus, FLastDirectoryChange, FLockDirectory, transaction
  cdLast,         \* the last ChangeDirectory and the backend calls it made
  \* ---- tunnel UI ----
  tuTerminalThread, \* TTunnelUI::FTerminalThread
  tuLast,           \* the last callback on the tunnel UI
  \* ---- secondary terminal ----
  scTried,          \* FMasterPasswordTried, FMasterTunnelPasswordTried
  scMain,           \* the passwords the main terminal has stored
  scTunnelOpening,  \* FTunnelOpening
  scReplays,        \* prompts answered with the stored password, per kind
  scLast,           \* the last DoPromptUser
  \* ---- bulk operations ----
  pfPc,          \* "idle" | "loop" | "returned" | "raised"
  pfCall,        \* the per-file operation, side, file count, FExceptionOnFail
  pfIndex,       \* Index of the loop, from 1
  pfProgress,    \* the TFileOperationProgressType of the call
  pfActive,      \* GetActive()
  pfTransaction, \* FInTransaction and FReadDirectoryPending
  pfFinished,    \* the calls of Progress.Finish: file and Success
  pfActions,     \* the session actions of the per-file operations
  pfLast,        \* the last round of the loop and how it ended
  \* ---- callback guards ----
  cgGuards,        \* the TCallbackGuard objects alive, outermost first
  cgCallbackGuard, \* FCallbackGuard: index into cgGuards, 0 for NULL
  cgRaised,        \* the exception that is going on
  cgAlive,         \* the terminal has not been destroyed
  cgLast,          \* the last step about a guard
  \* ---- keep-up-to-date monitor ----
  sfController,    \* FOptions->Filter, FSynchronizeParams.LocalDirectory, FCopyParam
  sfLast,          \* the last call of SynchronizeFilter
  \* ---- tunnel driver thread ----
  ttPc,          \* "while" | "Idle" | "catch" | "exited"
  ttTerminated,  \* FTerminated
  ttShellActive, \* FSecureShell->GetActive()
  ttIdleCalls,   \* calls of FSecureShell->Idle started so far
  ttLast,        \* what the handler of Execute found and did
  \* ---- operations that open a transaction ----
  opPc,              \* "idle" | "returned" | "raised"
  opInTransaction,   \* FInTransaction
  opActive,          \* GetActive()
  opExceptionOnFail, \* FExceptionOnFail > 0
  opLast,            \* the last operation and how it went
  \* ---- the reopen loops, pass by pass ----
  roPc,       \* "idle" | "OpenLoop" | "ReopenLoop" | "ReopenEnd"
  roOwner,    \* who called Open: "none" (its caller) or "QueryReopen"
  roParams,   \* the Params of the QueryReopen that is running
  roSaved,    \* the terminal at the entry of the Reopen that is running
  roRaised,   \* the exception the last Open left: "none" | "queried" | "unqueried"
  roPasses,   \* passes of the loop of the last Open
  roReopens   \* calls of Reopen of the last QueryReopen

syVars == <<syPc, syLocal, syRemote, syMode, syParams, syRaw, syChecklist,
            syIndex, syStage, syGroup, syLists, syCalls, syInTransaction>>
rtVars == <<rtPc, rtProgress, rtExceptionOnFail, rtActions, rtLast>>
dlVars == <<dlPc, dlSession, dlCall, dlLog>>
cfVars == <<cfBatchOverwrite, cfConfirmOverwriting, cfParams, cfLast>>
trVars == <<trInTransaction, trReadCurrentDirectoryPending,
            trReadDirectoryPending, trActive, trAutoReadDirectory,
            trSuspendTransaction, trCommandSession, trLast>>
ssVars == <<ssStatus, ssFileSystem, ssFSProtocol, ssTunnel,
            ssDirectoryChangesCache, ssFilesDirectory, ssCurrentDirectory,
            ssServerDirectory, ssLastDirectoryChange, ssData, ssConfiguration,
            ssExceptionOnFail, ssAsked, ssLast>>
dcVars == <<dcCache, dcSession, dcLast>>
cdVars == <<cdBackend, cdChangesCache, cdTerminal, cdLast>>
tuVars == <<tuTerminalThread, tuLast>>
scVars == <<scTried, scMain, scTunnelOpening, scReplays, scLast>>
pfVars == <<pfPc, pfCall, pfIndex, pfProgress, pfActive, pfTransaction,
            pfFinished, pfActions, pfLast>>
cgVars == <<cgGuards, cgCallbackGuard, cgRaised, cgAlive, cgLast>>
sfVars == <<sfController, sfLast>>
ttVars == <<ttPc, ttTerminated, ttShellActive, ttIdleCalls, ttLast>>
opVars == <<opPc, opInTransaction, opActive, opExceptionOnFail, opLast>>
roVars == <<roPc, roOwner, roParams, roSaved, roRaised, roPasses, roReopens>>
vars == <<syVars, rtVars, dlVars, cfVars, trVars, ssVars, dcVars, cdVars,
          tuVars, scVars, pfVars, cgVars, sfVars, ttVars, opVars, roVars>>

-----------------------------------------------------------------------------
(* Bounds *)
MaxTime == 2          \* modification times are 1..MaxTime
MaxActions == 3       \* session actions (attempts) of one run of operations
MaxNesting == 3       \* depth of nested transactions

(* File names are classes of names equal under AnsiCompareText; they are   *)
(* ordered like the text they stand for.  RootNames live in the root       *)
(* directory pair, SubNames in the sub-directory pair; DirName is the one  *)
(* name that may be a directory.                                           *)
RootNames == {1, 2}
DirName == CHOOSE n \in RootNames : \A m \in RootNames : m <= n
SubNames == {1}
NoName == 0                 \* empty UnicodeString used as a file name
EmptyDir == << >>           \* empty UnicodeString used as a directory
RootDir == <<0>>            \* the directory the synchronization started in
SubDir(dir, name) == Append(dir, name)

Times == 1..MaxTime

SyncModes == {"smRemote", "smLocal", "smBoth"}
SyncFlags == {"spDelete", "spExistingOnly", "spNoRecurse", "spSubDirs",
              "spTimestamp", "spNotByTime", "spBySize", "spMirror"}

FLAGSET(params, flag) == flag \in params
FLAGCLEAR(params, flag) == flag \notin params

-----------------------------------------------------------------------------
(* Timestamps.  A TDateTime is a tick count.  The precision tags are      *)
(* ordered from the coarsest to the finest; reducing a time to a          *)
(* precision drops the ticks the precision does not keep.                 *)
Precisions == <<"mfNone", "mfHour", "mfMinute", "mfFull">>
PrecisionRank(fmt) == CHOOSE i \in 1..Len(Precisions) : Precisions[i] = fmt

ReduceDateTimePrecision(t, fmt) ==
  CASE fmt = "mfFull"   -> t
    [] fmt = "mfMinute" -> t - (t % 2)
    [] fmt = "mfHour"   -> t - (t % 4)
    [] OTHER            -> 0

LessDateTimePrecision(p1, p2) ==
  IF PrecisionRank(p1) < PrecisionRank(p2) THEN p1 ELSE p2

CompareFileTime(t1, t2) == IF t1 < t2 THEN -1 ELSE IF t1 > t2 THEN 1 ELSE 0

-----------------------------------------------------------------------------
(* Directory entries *)
Absent == [kind |-> "none", time |-> 0, size |-> 0, fmt |-> "mfFull"]
DirEntry == [kind |-> "dir", time |-> 0, size |-> 0, fmt |-> "mfFull"]
LocalFiles == {[kind |-> "file", time |-> t, size |-> 1, fmt |-> "mfFull"] : t \in Times}
RemoteFiles == {[kind |-> "file", time |-> t, size |-> s, fmt |-> "mfFull"] :
                  t \in Times, s \in {1, 2}}

AllNames == RootNames \cup SubNames
EmptyListing == [n \in AllNames |-> Absent]

\* the oldest local and remote file, the only files the directory-capable
\* name and the sub-directory hold
OldLocal == [kind |-> "file", time |-> 1, size |-> 1, fmt |-> "mfFull"]
OldRemote == [kind |-> "file", time |-> 1, size |-> 1, fmt |-> "mfFull"]

\* listings of the root pair: only DirName may be a directory
RootLocalListings ==
  {l \in [AllNames -> LocalFiles \cup {Absent, DirEntry}] :
     \A n \in AllNames :
        /\ (n \notin RootNames => l[n] = Absent)
        /\ (n = DirName => l[n] \in {Absent, DirEntry, OldLocal})
        /\ (n # DirName => l[n].kind # "dir")}
RootRemoteListings ==
  {l \in [AllNames -> RemoteFiles \cup {Absent, DirEntry}] :
     \A n \in AllNames :
        /\ (n \notin RootNames => l[n] = Absent)
        /\ (n = DirName => l[n] \in {Absent, DirEntry, OldRemote})
        /\ (n # DirName => l[n].kind # "dir")}
\* listings of the sub-directory pair: files only
SubLocalListings ==
  {l \in [AllNames -> {Absent, OldLocal}] :
     \A n \in AllNames : n \notin SubNames => l[n] = Absent}
SubRemoteListings ==
  {l \in [AllNames -> {Absent, OldRemote}] :
     \A n \in AllNames : n \notin SubNames => l[n] = Absent}

Dirs == {RootDir, SubDir(RootDir, DirName)}

-----------------------------------------------------------------------------
(* TSynchronizeChecklist *)
EmptyInfo == [Directory |-> EmptyDir, FileName |-> NoName,
              Modification |-> 0, ModificationFmt |-> "mfFull", Size |-> 0]

\* TSynchronizeChecklist::TItem::TItem
NewItem == [Action |-> "saNone", IsDirectory |-> FALSE, Checked |-> TRUE,
            Local |-> EmptyInfo, Remote |-> EmptyInfo]

\* TSynchronizeChecklist::TItem::GetFileName
GetFileName(item) ==
  IF item.Remote.FileName # NoName THEN item.Remote.FileName
  ELSE item.Local.FileName

AnsiCompareText(a, b) == IF a < b THEN -1 ELSE IF a > b THEN 1 ELSE 0

RECURSIVE AnsiCompareDir(_, _)
AnsiCompareDir(a, b) ==
  IF a = << >> THEN (IF b = << >> THEN 0 ELSE -1)
  ELSE IF b = << >> THEN 1
  ELSE IF Head(a) # Head(b) THEN AnsiCompareText(Head(a), Head(b))
  ELSE AnsiCompareDir(Tail(a), Tail(b))

\* TSynchronizeChecklist::Compare
Compare(Item1, Item2) ==
  LET Result == IF Item1.Local.Directory # EmptyDir
                THEN AnsiCompareDir(Item1.Local.Directory, Item2.Local.Directory)
                ELSE AnsiCompareDir(Item1.Remote.Directory, Item2.Remote.Directory)
  IN IF Result = 0
     THEN AnsiCompareText(GetFileName(Item1), GetFileName(Item2))
     ELSE Result

\* TList::Sort(Compare): the order of items that compare equal is not
\* specified; tieAfter selects one of the two orders of an equal pair.
RECURSIVE SortInsert(_, _, _)
SortInsert(sorted, item, tieAfter) ==
  IF sorted = << >> THEN <<item>>
  ELSE LET c == Compare(item, Head(sorted))
       IN IF c < 0 \/ (c = 0 /\ ~tieAfter)
          THEN <<item>> \o sorted
          ELSE <<Head(sorted)>> \o SortInsert(Tail(sorted), item, tieAfter)

RECURSIVE SortFrom(_, _, _)
SortFrom(sorted, rest, tieAfter) ==
  IF rest = << >> THEN sorted
  ELSE SortFrom(SortInsert(sorted, Head(rest), tieAfter), Tail(rest), tieAfter)

\* Sort left out: the list stays as the walk appended it
SortMutant(list, tieAfter) == list

Sort(list, tieAfter) == SortFrom(<< >>, list, tieAfter)

-----------------------------------------------------------------------------
(* Collect phase.  A listing holds the entries that passed the copy-param  *)
(* mask, the temporary-file test and the first-level filter; an excluded   *)
(* entry is the same as an absent one.                                     *)

\* TSynchronizeFileData built by the local enumeration
LocalFileData(LocalDirectory, name, entry) ==
  [Present |-> entry.kind # "none",
   IsDirectory |-> entry.kind = "dir",
   Info |-> [Directory |-> LocalDirectory, FileName |-> name,
             Modification |-> entry.time, ModificationFmt |-> "mfFull",
             Size |-> entry.size],
   New |-> TRUE, Modified |-> FALSE,
   MatchingRemoteFile |-> EmptyInfo]

\* the checked flag shared by all the actions of a directory item
DirectoryChecked(IsDirectory, Params) ==
  \/ ~IsDirectory
  \/ FLAGCLEAR(Params, "spNoRecurse")
  \/ FLAGSET(Params, "spSubDirs")

\* the comparison of a file present on both sides: <<Modified, LocalModified>>
\* CompareSides with a size difference at equal times marking the remote
\* side only
CompareSidesMutant(Mode, Params, Local, Remote) ==
  LET TimeCompare ==
        IF /\ FLAGCLEAR(Params, "spNotByTime")
           /\ \/ FLAGCLEAR(Params, "spTimestamp")
              \/ FLAGCLEAR(Params, "spBySize")
              \/ Local.Size = Remote.Size
        THEN CompareFileTime(Local.Modification, Remote.Modification)
        ELSE 0
      Plain == FLAGCLEAR(Params, "spTimestamp") /\ FLAGCLEAR(Params, "spMirror")
  IN IF TimeCompare < 0
     THEN IF Plain \/ Mode = "smBoth" \/ Mode = "smLocal"
          THEN <<TRUE, FALSE>> ELSE <<FALSE, TRUE>>
     ELSE IF TimeCompare > 0
     THEN IF Plain \/ Mode = "smBoth" \/ Mode = "smRemote"
          THEN <<FALSE, TRUE>> ELSE <<TRUE, FALSE>>
     ELSE IF /\ FLAGSET(Params, "spBySize")
             /\ Local.Size # Remote.Size
             /\ FLAGCLEAR(Params, "spTimestamp")
     THEN <<TRUE, FALSE>>
     ELSE <<FALSE, FALSE>>

\* CompareSides with a newer remote file marking the local side
CompareSidesNewerMutant(Mode, Params, Local, Remote) ==
  LET TimeCompare ==
        IF /\ FLAGCLEAR(Params, "spNotByTime")
           /\ \/ FLAGCLEAR(Params, "spTimestamp")
              \/ FLAGCLEAR(Params, "spBySize")
              \/ Local.Size = Remote.Size
        THEN CompareFileTime(Local.Modification, Remote.Modification)
        ELSE 0
      Plain == FLAGCLEAR(Params, "spTimestamp") /\ FLAGCLEAR(Params, "spMirror")
  IN IF TimeCompare < 0
     THEN IF Plain \/ Mode = "smLocal"
          THEN <<TRUE, FALSE>> ELSE <<FALSE, TRUE>>
     ELSE IF TimeCompare > 0
     THEN IF Plain \/ Mode = "smBoth" \/ Mode = "smRemote"
          THEN <<FALSE, TRUE>> ELSE <<TRUE, FALSE>>
     ELSE IF /\ FLAGSET(Params, "spBySize")
             /\ Local.Size # Remote.Size
             /\ FLAGCLEAR(Params, "spTimestamp")
     THEN <<TRUE, TRUE>>
     ELSE <<FALSE, FALSE>>
CompareSides(Mode, Params, Local, Remote) ==
  LET TimeCompare ==
        IF /\ FLAGCLEAR(Params, "spNotByTime")
           /\ \/ FLAGCLEAR(Params, "spTimestamp")
              \/ FLAGCLEAR(Params, "spBySize")
              \/ Local.Size = Remote.Size
        THEN CompareFileTime(Local.Modification, Remote.Modification)
        ELSE 0
      Plain == FLAGCLEAR(Params, "spTimestamp") /\ FLAGCLEAR(Params, "spMirror")
  IN IF TimeCompare < 0
     THEN IF Plain \/ Mode = "smBoth" \/ Mode = "smLocal"
          THEN <<TRUE, FALSE>> ELSE <<FALSE, TRUE>>
     ELSE IF TimeCompare > 0
     THEN IF Plain \/ Mode = "smBoth" \/ Mode = "smRemote"
          THEN <<FALSE, TRUE>> ELSE <<TRUE, FALSE>>
     ELSE IF /\ FLAGSET(Params, "spBySize")
             /\ Local.Size # Remote.Size
             /\ FLAGCLEAR(Params, "spTimestamp")
     THEN <<TRUE, TRUE>>
     ELSE <<FALSE, FALSE>>

\* the action and checked flag SynchronizeCollectFile gives a new or
\* modified remote file
\* RemoteItemAction with the download branch open to every mode
RemoteItemActionMutant(Item, Mode, Params, New, Modified) ==
  IF FLAGCLEAR(Params, "spTimestamp") \/ Modified
  THEN [Item EXCEPT
          !.Action = IF Modified THEN "saDownloadUpdate" ELSE "saDownloadNew",
          !.Checked = /\ (Modified \/ FLAGCLEAR(Params, "spExistingOnly"))
                      /\ DirectoryChecked(Item.IsDirectory, Params)]
  ELSE Item


\* RemoteItemAction that marks a new remote file for deletion in timestamp
\* mode too
RemoteItemActionTimestampMutant(Item, Mode, Params, New, Modified) ==
  IF Mode = "smBoth" \/ Mode = "smLocal"
  THEN IF FLAGCLEAR(Params, "spTimestamp") \/ Modified
       THEN [Item EXCEPT
               !.Action = IF Modified THEN "saDownloadUpdate" ELSE "saDownloadNew",
               !.Checked = /\ (Modified \/ FLAGCLEAR(Params, "spExistingOnly"))
                           /\ DirectoryChecked(Item.IsDirectory, Params)]
       ELSE Item
  ELSE IF Mode = "smRemote" /\ New
  THEN [Item EXCEPT
          !.Action = "saDeleteRemote",
          !.Checked = /\ FLAGSET(Params, "spDelete")
                      /\ DirectoryChecked(Item.IsDirectory, Params)]
  ELSE Item
RemoteItemAction(Item, Mode, Params, New, Modified) ==
  IF Mode = "smBoth" \/ Mode = "smLocal"
  THEN IF FLAGCLEAR(Params, "spTimestamp") \/ Modified
       THEN [Item EXCEPT
               !.Action = IF Modified THEN "saDownloadUpdate" ELSE "saDownloadNew",
               !.Checked = /\ (Modified \/ FLAGCLEAR(Params, "spExistingOnly"))
                           /\ DirectoryChecked(Item.IsDirectory, Params)]
       ELSE Item
  ELSE IF Mode = "smRemote" /\ New
  THEN IF FLAGCLEAR(Params, "spTimestamp")
       THEN [Item EXCEPT
               !.Action = "saDeleteRemote",
               !.Checked = /\ FLAGSET(Params, "spDelete")
                           /\ DirectoryChecked(Item.IsDirectory, Params)]
       ELSE Item
  ELSE Item

\* LocalItemAction with the local-only files of mode=local left alone
LocalItemActionMutant(Item, Mode, Params, Modified) ==
  IF Mode = "smBoth" \/ Mode = "smRemote"
  THEN [Item EXCEPT
          !.Action = IF Modified THEN "saUploadUpdate" ELSE "saUploadNew",
          !.Checked = /\ (Modified \/ FLAGCLEAR(Params, "spExistingOnly"))
                      /\ DirectoryChecked(Item.IsDirectory, Params)]
  ELSE Item

\* the action and checked flag the second pass gives a new or modified
\* local file
LocalItemAction(Item, Mode, Params, Modified) ==
  IF Mode = "smBoth" \/ Mode = "smRemote"
  THEN [Item EXCEPT
          !.Action = IF Modified THEN "saUploadUpdate" ELSE "saUploadNew",
          !.Checked = /\ (Modified \/ FLAGCLEAR(Params, "spExistingOnly"))
                      /\ DirectoryChecked(Item.IsDirectory, Params)]
  ELSE IF Mode = "smLocal" /\ FLAGCLEAR(Params, "spTimestamp")
  THEN [Item EXCEPT
          !.Action = "saDeleteLocal",
          !.Checked = /\ FLAGSET(Params, "spDelete")
                      /\ DirectoryChecked(Item.IsDirectory, Params)]
  ELSE Item

RECURSIVE DoSynchronizeCollectDirectory(_, _, _, _, _, _, _, _)

\* TTerminal::SynchronizeCollectFile: one remote file of the walk; Data is
\* the TSynchronizeData of the directory pair, the result is the new Data
SynchronizeCollectFile(ltree, rtree, ord, Data, name) ==
  LET File == rtree[Data.RemoteDirectory][name]
      IsDir == File.kind = "dir"
      Item0 == [NewItem EXCEPT
                  !.IsDirectory = IsDir,
                  !.Remote = [Directory |-> Data.RemoteDirectory,
                              FileName |-> name,
                              Modification |-> File.time,
                              ModificationFmt |-> File.fmt,
                              Size |-> File.size]]
      LocalData == Data.LocalFileList[name]
      New == ~LocalData.Present
      BothFiles == ~New /\ IsDir = LocalData.IsDirectory /\ ~IsDir
      BothDirs == ~New /\ IsDir = LocalData.IsDirectory /\ IsDir
      Item1 == IF BothFiles
               THEN [Item0 EXCEPT
                       !.Local = [LocalData.Info EXCEPT
                          !.Modification =
                             ReduceDateTimePrecision(LocalData.Info.Modification,
                                                     File.fmt)]]
               ELSE IF New
               THEN [Item0 EXCEPT !.Local.Directory = Data.LocalDirectory]
               ELSE Item0
      Cmp == IF BothFiles
             THEN CompareSides(Data.Mode, Data.Params, Item1.Local, Item1.Remote)
             ELSE <<FALSE, FALSE>>
      Modified == Cmp[1]
      LocalModified == Cmp[2]
      LocalData1 == IF New THEN LocalData
                    ELSE IF LocalModified
                    THEN [LocalData EXCEPT !.New = FALSE, !.Modified = TRUE,
                                           !.MatchingRemoteFile = Item1.Remote]
                    ELSE [LocalData EXCEPT !.New = FALSE]
      Checklist1 == IF BothDirs /\ FLAGCLEAR(Data.Params, "spNoRecurse")
                    THEN DoSynchronizeCollectDirectory(ltree, rtree, ord,
                           SubDir(Data.LocalDirectory, LocalData.Info.FileName),
                           SubDir(Data.RemoteDirectory, name),
                           Data.Mode, Data.Params, Data.Checklist)
                    ELSE Data.Checklist
      Item2 == IF New \/ Modified
               THEN RemoteItemAction(Item1, Data.Mode, Data.Params, New, Modified)
               ELSE Item1
  IN [Data EXCEPT
        !.LocalFileList = [Data.LocalFileList EXCEPT ![name] = LocalData1],
        !.Checklist = IF (New \/ Modified) /\ Item2.Action # "saNone"
                      THEN Append(Checklist1, Item2)
                      ELSE Checklist1]

\* TTerminal::ProcessDirectory with SynchronizeCollectFile as the callback:
\* the remote files in the order the listing has them
RECURSIVE ProcessDirectory(_, _, _, _, _)
ProcessDirectory(ltree, rtree, ord, Data, rest) ==
  IF rest = << >> THEN Data
  ELSE LET name == Head(rest)
           Data1 == IF rtree[Data.RemoteDirectory][name].kind # "none"
                    THEN SynchronizeCollectFile(ltree, rtree, ord, Data, name)
                    ELSE Data
       IN ProcessDirectory(ltree, rtree, ord, Data1, Tail(rest))

\* the item the second pass of DoSynchronizeCollectDirectory adds for one
\* local file, appended to Checklist
CollectLocalFile(Data, Checklist, FileData) ==
  LET Mode == Data.Mode
      Params == Data.Params
      Modified == FileData.Modified /\ (Mode = "smBoth" \/ Mode = "smRemote")
      New == /\ FileData.New
             /\ \/ Mode = "smLocal"
                \/ /\ (Mode = "smBoth" \/ Mode = "smRemote")
                   /\ FLAGCLEAR(Params, "spTimestamp")
      Item0 == [NewItem EXCEPT
                  !.IsDirectory = FileData.IsDirectory,
                  !.Local = FileData.Info,
                  !.Remote = IF Modified THEN FileData.MatchingRemoteFile
                             ELSE [EmptyInfo EXCEPT
                                     !.Directory = Data.RemoteDirectory]]
      Item1 == LocalItemAction(Item0, Mode, Params, Modified)
  IN IF (Modified \/ New) /\ Item1.Action # "saNone"
     THEN Append(Checklist, Item1)
     ELSE Checklist

\* the names in ascending order (LocalFileList is a sorted string list)
RECURSIVE Ascending(_)
Ascending(names) ==
  IF names = {} THEN << >>
  ELSE LET m == CHOOSE n \in names : \A k \in names : n <= k
       IN <<m>> \o Ascending(names \ {m})

RECURSIVE SecondPass(_, _, _)
SecondPass(Data, Checklist, rest) ==
  IF rest = << >> THEN Checklist
  ELSE LET FileData == Data.LocalFileList[Head(rest)]
           Checklist1 == IF FileData.Present
                         THEN CollectLocalFile(Data, Checklist, FileData)
                         ELSE Checklist
       IN SecondPass(Data, Checklist1, Tail(rest))

\* TTerminal::DoSynchronizeCollectDirectory: the checklist with the items of
\* the directory pair (and of the pairs below it) appended
DoSynchronizeCollectDirectory(ltree, rtree, ord, LocalDirectory, RemoteDirectory, Mode, Params, Checklist) ==
  LET Data0 == [LocalDirectory |-> LocalDirectory,
                RemoteDirectory |-> RemoteDirectory,
                Mode |-> Mode, Params |-> Params,
                LocalFileList |->
                  [n \in AllNames |->
                     LocalFileData(LocalDirectory, n, ltree[LocalDirectory][n])],
                Checklist |-> Checklist]
      Data1 == ProcessDirectory(ltree, rtree, ord, Data0, ord)
  IN SecondPass(Data1, Data1.Checklist, Ascending(AllNames))

\* the walk of TTerminal::SynchronizeCollect, before Checklist->Sort()
CollectWalk(ltree, rtree, ord, Mode, Params) ==
  DoSynchronizeCollectDirectory(ltree, rtree, ord, RootDir, RootDir,
                                Mode, Params, << >>)

\* the orders a remote listing may have its files in
ListingOrders ==
  {ord \in [1..Cardinality(AllNames) -> AllNames] :
     \A i, j \in 1..Cardinality(AllNames) : i # j => ord[i] # ord[j]}

-----------------------------------------------------------------------------
(* Apply phase *)
NoLists == [DownloadList |-> << >>, DeleteRemoteList |-> << >>,
            UploadList |-> << >>, DeleteLocalList |-> << >>,
            Count |-> 0, Unexpected |-> FALSE]

\* the inner loop of SynchronizeApply: the items from IIndex on that share
\* the directories of the first one, sorted into the four lists
RECURSIVE PartitionGroup(_, _, _, _, _, _)
PartitionGroup(Checklist, Params, IIndex, LocalDir, RemoteDir, Lists) ==
  IF \/ IIndex > Len(Checklist)
     \/ Checklist[IIndex].Local.Directory # LocalDir
     \/ Checklist[IIndex].Remote.Directory # RemoteDir
  THEN [Lists |-> Lists, IIndex |-> IIndex]
  ELSE LET Item == Checklist[IIndex]
           Entry == [Directory |-> Item.Local.Directory, FileName |-> GetFileName(Item),
                     Action |-> Item.Action]
           Lists1 ==
             IF ~Item.Checked THEN Lists
             ELSE LET L == [Lists EXCEPT !.Count = @ + 1]
                  IN IF FLAGSET(Params, "spTimestamp")
                     THEN CASE Item.Action = "saDownloadUpdate" ->
                                 [L EXCEPT !.DownloadList = Append(@, Entry)]
                            [] Item.Action = "saUploadUpdate" ->
                                 [L EXCEPT !.UploadList = Append(@, Entry)]
                            [] OTHER -> [L EXCEPT !.Unexpected = TRUE]
                     ELSE CASE Item.Action \in {"saDownloadNew", "saDownloadUpdate"} ->
                                 [L EXCEPT !.DownloadList = Append(@, Entry)]
                            [] Item.Action = "saDeleteRemote" ->
                                 [L EXCEPT !.DeleteRemoteList = Append(@, Entry)]
                            [] Item.Action \in {"saUploadNew", "saUploadUpdate"} ->
                                 [L EXCEPT !.UploadList = Append(@, Entry)]
                            [] Item.Action = "saDeleteLocal" ->
                                 [L EXCEPT !.DeleteLocalList = Append(@, Entry)]
                            [] OTHER -> [L EXCEPT !.Unexpected = TRUE]
       IN PartitionGroup(Checklist, Params, IIndex + 1, LocalDir, RemoteDir, Lists1)

\* the bulk operations of one group in the order SynchronizeApply invokes
\* them, with the list each one works on
\* ApplyOrder with the upload ahead of the remote delete
ApplyOrderMutant(Params) ==
  IF FLAGSET(Params, "spTimestamp")
  THEN <<"SynchronizeLocalTimestamp", "SynchronizeRemoteTimestamp">>
  ELSE <<"CopyToLocal", "CopyToRemote", "DeleteFiles", "DeleteLocalFiles">>

ApplyOrder(Params) ==
  IF FLAGSET(Params, "spTimestamp")
  THEN <<"SynchronizeLocalTimestamp", "SynchronizeRemoteTimestamp">>
  ELSE <<"CopyToLocal", "DeleteFiles", "CopyToRemote", "DeleteLocalFiles">>

ListOf(Lists, op) ==
  CASE op \in {"CopyToLocal", "SynchronizeLocalTimestamp"} -> Lists.DownloadList
    [] op = "DeleteFiles" -> Lists.DeleteRemoteList
    [] op \in {"CopyToRemote", "SynchronizeRemoteTimestamp"} -> Lists.UploadList
    [] OTHER -> Lists.DeleteLocalList

\* the first operation at or after position k of the order whose list is
\* not empty; "partition" when the group has no more work
RECURSIVE StageFrom(_, _, _)
StageFrom(Params, Lists, k) ==
  IF k > Len(ApplyOrder(Params)) THEN "partition"
  ELSE IF ListOf(Lists, ApplyOrder(Params)[k]) # << >> THEN ApplyOrder(Params)[k]
  ELSE StageFrom(Params, Lists, k + 1)

StageIndex(Params, op) ==
  CHOOSE k \in 1..Len(ApplyOrder(Params)) : ApplyOrder(Params)[k] = op

BulkResults == {"ok", "cancelled", "raised"}

-----------------------------------------------------------------------------
(* Synchronization: actions *)
syOthers == <<rtVars, dlVars, cfVars, trVars, ssVars, dcVars, cdVars, tuVars, scVars, pfVars, cgVars, sfVars, ttVars, opVars, roVars>>

SyIdle ==
  /\ syPc = "idle" /\ syMode = "smBoth" /\ syParams = {}
  /\ syRaw = << >> /\ syChecklist = << >>
  /\ syIndex = 1 /\ syStage = "partition" /\ syGroup = 0
  /\ syLists = NoLists /\ syCalls = << >> /\ syInTransaction = FALSE

\* no synchronization is under way and both trees are empty
SyIdleTree ==
  /\ SyIdle
  /\ syLocal = [d \in Dirs |-> EmptyListing]
  /\ syRemote = [d \in Dirs |-> EmptyListing]

SyInit ==
  /\ SyIdle
  /\ \E lr \in RootLocalListings, rr \in RootRemoteListings,
        ls \in SubLocalListings, rs \in SubRemoteListings :
       LET both == lr[DirName].kind = "dir" /\ rr[DirName].kind = "dir"
       IN /\ (~both => ls = EmptyListing /\ rs = EmptyListing)
          /\ syLocal = [d \in Dirs |-> IF d = RootDir THEN lr ELSE ls]
          /\ syRemote = [d \in Dirs |-> IF d = RootDir THEN rr ELSE rs]

\* TTerminal::SynchronizeCollect
SynchronizeCollect(paramSets) ==
  /\ syPc = "idle"
  /\ \E Mode \in SyncModes, Params \in paramSets, ord \in ListingOrders,
        tieAfter \in BOOLEAN :
       /\ syMode' = Mode
       /\ syParams' = Params
       /\ syRaw' = CollectWalk(syLocal, syRemote, ord, Mode, Params)
       /\ syChecklist' = Sort(syRaw', tieAfter)
  /\ syPc' = "collected"
  /\ UNCHANGED <<syLocal, syRemote, syIndex, syStage, syGroup, syLists,
                 syCalls, syInTransaction>>

\* SynchronizeApply up to its loop: BeginTransaction
SynchronizeApplyBegin ==
  /\ syPc = "collected"
  /\ syPc' = "applying"
  /\ syIndex' = 1 /\ syStage' = "partition" /\ syGroup' = 0
  /\ syLists' = NoLists
  /\ syInTransaction' = TRUE
  /\ UNCHANGED <<syLocal, syRemote, syMode, syParams, syRaw, syChecklist, syCalls>>
  /\ UNCHANGED syOthers

\* one round of the outer loop up to the first bulk operation: the lists
\* of the next group and the progress callback, which may ask to stop
SynchronizeApplyGroup ==
  /\ syPc = "applying" /\ syStage = "partition"
  /\ syIndex <= Len(syChecklist)
  /\ LET First == syChecklist[syIndex]
         P == PartitionGroup(syChecklist, syParams, syIndex,
                             First.Local.Directory, First.Remote.Directory,
                             NoLists)
     IN /\ syIndex' = P.IIndex
        /\ syLists' = P.Lists
        /\ syGroup' = syGroup + 1
        /\ IF P.Lists.Count > 0
           THEN \E Continue \in BOOLEAN :
                  IF Continue
                  THEN /\ syStage' = StageFrom(syParams, P.Lists, 1)
                       /\ UNCHANGED <<syPc, syInTransaction>>
                  ELSE /\ syStage' = "partition"
                       /\ syPc' = "aborted"
                       /\ syInTransaction' = FALSE
           ELSE /\ syStage' = "partition"
                /\ UNCHANGED <<syPc, syInTransaction>>
  /\ UNCHANGED <<syLocal, syRemote, syMode, syParams, syRaw, syChecklist, syCalls>>
  /\ UNCHANGED syOthers


\* a cancelled bulk operation that lets the apply go on
BulkAbortsMutant(Params, Result) == FALSE

\* the test around every bulk operation of SynchronizeApply: outside
\* timestamp mode a bulk operation that returns false makes the apply call
\* Abort(); the results of the ProcessFiles calls of timestamp mode are
\* not looked at
BulkAborts(Params, Result) ==
  Result = "cancelled" /\ FLAGCLEAR(Params, "spTimestamp")

\* one bulk operation of the current group and what follows its result
BulkOperation(op) ==
  /\ syPc = "applying" /\ syStage = op
  /\ \E Result \in BulkResults :
       /\ syCalls' = Append(syCalls, [Group |-> syGroup, Op |-> op,
                                      Files |-> ListOf(syLists, op),
                                      Result |-> Result])
       /\ IF Result = "raised"
          THEN /\ syPc' = "raised" /\ syStage' = "partition"
               /\ syInTransaction' = FALSE
          ELSE IF BulkAborts(syParams, Result)
          THEN /\ syPc' = "aborted" /\ syStage' = "partition"
               /\ syInTransaction' = FALSE
          ELSE /\ syStage' = StageFrom(syParams, syLists,
                                       StageIndex(syParams, op) + 1)
               /\ UNCHANGED <<syPc, syInTransaction>>
  /\ UNCHANGED <<syLocal, syRemote, syMode, syParams, syRaw, syChecklist,
                 syIndex, syGroup, syLists>>

CopyToLocal == BulkOperation("CopyToLocal") /\ UNCHANGED syOthers
DeleteFiles == BulkOperation("DeleteFiles") /\ UNCHANGED syOthers
CopyToRemote == BulkOperation("CopyToRemote") /\ UNCHANGED syOthers
DeleteLocalFiles == BulkOperation("DeleteLocalFiles") /\ UNCHANGED syOthers
SynchronizeLocalTimestamp ==
  BulkOperation("SynchronizeLocalTimestamp") /\ UNCHANGED syOthers
SynchronizeRemoteTimestamp ==
  BulkOperation("SynchronizeRemoteTimestamp") /\ UNCHANGED syOthers

\* the end of SynchronizeApply: the loop is over, EndTransaction
SynchronizeApplyEnd ==
  /\ syPc = "applying" /\ syStage = "partition"
  /\ syIndex > Len(syChecklist)
  /\ syPc' = "done"
  /\ syInTransaction' = FALSE
  /\ UNCHANGED <<syLocal, syRemote, syMode, syParams, syRaw, syChecklist,
                 syIndex, syStage, syGroup, syLists, syCalls>>
  /\ UNCHANGED syOthers

\* SynchronizeCollect over every mode and every combination of the params
CollectAny == SynchronizeCollect(SUBSET SyncFlags) /\ UNCHANGED syOthers

\* the params the apply phase is run with
ApplyFlags == {"spDelete", "spTimestamp", "spNoRecurse", "spBySize"}
CollectForApply == SynchronizeCollect(SUBSET ApplyFlags) /\ UNCHANGED syOthers

-----------------------------------------------------------------------------
(* Synchronization: properties *)

\* the position of a bulk operation in the documented order
\* download, remote delete, upload, local delete
BucketRank(op) ==
  CASE op = "CopyToLocal" -> 1
    [] op = "DeleteFiles" -> 2
    [] op = "CopyToRemote" -> 3
    [] op = "DeleteLocalFiles" -> 4
    [] OTHER -> 0

\* C1: in SynchronizeApply without spTimestamp the bulk operations of one
\* group are invoked in the order CopyToLocal, DeleteFiles, CopyToRemote,
\* DeleteLocalFiles (each at most once, each after the earlier ones have
\* returned), and every operation works on files of its group only.
C1_ApplyOrder ==
  FLAGCLEAR(syParams, "spTimestamp") =>
    /\ \A i, j \in 1..Len(syCalls) :
         (i < j /\ syCalls[i].Group = syCalls[j].Group) =>
            /\ BucketRank(syCalls[i].Op) < BucketRank(syCalls[j].Op)
            /\ syCalls[i].Result = "ok"
    /\ \A i \in 1..Len(syCalls) :
         /\ BucketRank(syCalls[i].Op) > 0
         /\ \A k, l \in 1..Len(syCalls[i].Files) :
              syCalls[i].Files[k].Directory = syCalls[i].Files[l].Directory

\* a group for which a remote delete was followed by an upload
C1_Witness ==
  /\ FLAGCLEAR(syParams, "spTimestamp")
  /\ \E i, j \in 1..Len(syCalls) :
       /\ i < j /\ syCalls[i].Group = syCalls[j].Group
       /\ syCalls[i].Op = "DeleteFiles" /\ syCalls[j].Op = "CopyToRemote"

ChecklistActions == {syChecklist[i].Action : i \in 1..Len(syChecklist)}

\* C2: a checklist collected with mode=local plans only download-new,
\* download-update and delete-local; one collected with mode=remote plans
\* only upload-new, upload-update and delete-remote.
C2_ModeSides ==
  syPc = "collected" =>
    /\ (syMode = "smLocal" =>
          ChecklistActions \subseteq
            {"saDownloadNew", "saDownloadUpdate", "saDeleteLocal"})
    /\ (syMode = "smRemote" =>
          ChecklistActions \subseteq
            {"saUploadNew", "saUploadUpdate", "saDeleteRemote"})

\* a mode=remote checklist that both uploads and deletes
C2_Witness ==
  /\ syPc = "collected" /\ syMode = "smRemote"
  /\ {"saUploadUpdate", "saDeleteRemote"} \subseteq ChecklistActions

\* the items of the checklist that stand for file name in directory dir
ItemsOf(dir, name) ==
  {i \in 1..Len(syChecklist) :
     /\ syChecklist[i].Local.Directory = dir
     /\ GetFileName(syChecklist[i]) = name}

\* a file on both sides of the root pair with equal times and other size
SizeOnlyDiffers(name) ==
  /\ syLocal[RootDir][name].kind = "file"
  /\ syRemote[RootDir][name].kind = "file"
  /\ syLocal[RootDir][name].time = syRemote[RootDir][name].time
  /\ syLocal[RootDir][name].size # syRemote[RootDir][name].size

BySizeBoth ==
  syPc = "collected" /\ syMode = "smBoth" /\ syParams = {"spBySize"}

\* C3 as stated: with params={by-size} and mode=both a file with equal times
\* and different sizes gets exactly one item, a download-update.
C3_Original ==
  BySizeBoth =>
    \A name \in RootNames :
       SizeOnlyDiffers(name) =>
          /\ Cardinality(ItemsOf(RootDir, name)) = 1
          /\ \A i \in ItemsOf(RootDir, name) :
               syChecklist[i].Action = "saDownloadUpdate"

\* C3 amended: with params={by-size} and mode=both a file with equal times
\* and different sizes gets exactly two items, one download-update and one
\* upload-update.
C3_BySizeBothSides ==
  BySizeBoth =>
    \A name \in RootNames :
       SizeOnlyDiffers(name) =>
          /\ Cardinality(ItemsOf(RootDir, name)) = 2
          /\ {syChecklist[i].Action : i \in ItemsOf(RootDir, name)} =
               {"saDownloadUpdate", "saUploadUpdate"}

C3_Witness ==
  BySizeBoth /\ \E name \in RootNames : SizeOnlyDiffers(name)

\* the checklist is ordered by TSynchronizeChecklist::Compare
ChecklistSorted ==
  \A i, j \in 1..Len(syChecklist) :
     i < j => Compare(syChecklist[i], syChecklist[j]) <= 0

SameFile(i, j) ==
  /\ syChecklist[i].Local.Directory = syChecklist[j].Local.Directory
  /\ GetFileName(syChecklist[i]) = GetFileName(syChecklist[j])

-----------------------------------------------------------------------------
(* Retry handling of failed operations, session actions *)
rtOthers == <<syVars, dlVars, cfVars, trVars, ssVars, dcVars, cdVars, tuVars, scVars, pfVars, cgVars, sfVars, ttVars, opVars, roVars>>

NoProgress == [Present |-> FALSE, SkipToAll |-> FALSE, Cancel |-> "csContinue"]
NewProgress == [Present |-> TRUE, SkipToAll |-> FALSE, Cancel |-> "csContinue"]

\* what a backend call or a local file operation may end with
Exceptions == {"Exception", "EScpSkipFile", "EAbort", "EFatal"}
\* a backend that fails may have cancelled the action it was given
BackendOutcomes ==
  {[E |-> "none", ActionCancelled |-> FALSE]} \cup
  {[E |-> e, ActionCancelled |-> c] : e \in Exceptions, c \in BOOLEAN}

\* what the query callback does: it returns an answer or it raises
QueryAnswers == {"qaRetry", "qaSkip", "qaAbort", "qaAll", "qaYes"}
Replies ==
  {[Answer |-> a, Raised |-> "none"] : a \in QueryAnswers} \cup
  {[Answer |-> "none", Raised |-> r] : r \in {"ESshFatal", "EAbort"}}

\* TSessionAction: a handle on a record that is pending until its first
\* Commit, Cancel or Rollback; the handle drops the record with it
PendingAction == [State |-> "pending", Transitions |-> 0, Attempts |-> 0, Error |-> "none"]
ActionEnd(Action, state) ==
  IF Action.State = "pending"
  THEN [Action EXCEPT !.State = state, !.Transitions = @ + 1]
  ELSE Action
ActionCommit(Action) == ActionEnd(Action, "committed")
ActionCancel(Action) == ActionEnd(Action, "cancelled")
ActionRollback(Action) == ActionEnd(Action, "rolledback")
\* TSessionAction::Rollback(E): the record keeps the error
ActionRollbackError(Action, E) ==
  IF Action.State = "pending" THEN [ActionRollback(Action) EXCEPT !.Error = E] ELSE Action
\* TSessionAction::~TSessionAction
ActionDestroy(Action) == ActionCommit(Action)

\* RollbackAction that records nothing
RollbackActionMutant(Action, OperationProgress, E) == ActionCancel(Action)

\* TTerminal::RollbackAction
RollbackAction(Action, OperationProgress, E) ==
  IF /\ E = "EScpSkipFile"
     /\ (~OperationProgress.Present \/ OperationProgress.Cancel = "csContinue")
  THEN ActionCancel(Action)
  ELSE ActionRollbackError(Action, E)

\* the answers of the COMMAND_ERROR_ARI macros
AriAnswers == {"qaRetry", "qaSkip", "qaAbort"}

\* CommandError: skipping is on offer
CanSkip(Answers, Progress) == "qaSkip" \in Answers /\ Progress.Present

\* the answers CommandError puts to the user
CommandErrorOffers(Answers, Progress) ==
  Answers \cup (IF CanSkip(Answers, Progress) THEN {"qaAll"} ELSE {})

\* TTerminal::CommandError(E, Msg, Answers); Reply is what the query
\* callback does when it is invoked
CommandError(E, Answers, Progress, ExceptionOnFail, Reply) ==
  LET R == [Result |-> "none", Raised |-> "none", Prompted |-> FALSE,
            SkipToAll |-> Progress.SkipToAll]
  IN IF E = "EFatal" THEN [R EXCEPT !.Raised = "ESshFatal"]
     ELSE IF E = "EAbort" THEN [R EXCEPT !.Raised = "EAbort"]
     ELSE IF ExceptionOnFail THEN [R EXCEPT !.Raised = "ECommand"]
     ELSE IF Answers = {} THEN R
     ELSE IF CanSkip(Answers, Progress) /\ Progress.SkipToAll
     THEN [R EXCEPT !.Result = "qaSkip"]
     ELSE IF Reply.Raised # "none"
     THEN [R EXCEPT !.Raised = Reply.Raised, !.Prompted = TRUE]
     ELSE IF Reply.Answer = "qaAll"
     THEN [R EXCEPT !.Result = "qaSkip", !.Prompted = TRUE, !.SkipToAll = TRUE]
     ELSE [R EXCEPT !.Result = Reply.Answer, !.Prompted = TRUE]

\* the reply is one the query of CommandError can give
CommandErrorReply(Answers, Progress, Reply) ==
  Reply.Raised # "none" \/ Reply.Answer \in CommandErrorOffers(Answers, Progress)

\* the answers FileOperationLoopQuery puts to the user
LoopQueryOffers(AllowSkip, SpecialRetry) ==
  {"qaRetry", "qaAbort"} \cup (IF AllowSkip THEN {"qaSkip", "qaAll"} ELSE {})
                         \cup (IF SpecialRetry THEN {"qaYes"} ELSE {})

\* FileOperationLoopQuery with skip-to-all left out of its first test
SkipsQueryMutant(AllowSkip, Progress) == FALSE

\* FileOperationLoopQuery: its first test, which passes the query over
SkipsQuery(AllowSkip, Progress) == AllowSkip /\ Progress.SkipToAll

\* TTerminal::FileOperationLoopQuery: Result is its return value when it
\* returns (the loop then repeats the operation)
FileOperationLoopQuery(Progress, AllowSkip, SpecialRetry, Reply) ==
  LET Skipped == SkipsQuery(AllowSkip, Progress)
      Answer0 == IF Skipped THEN "qaSkip" ELSE Reply.Answer
      SkipToAll == Progress.SkipToAll \/ (~Skipped /\ Answer0 = "qaAll")
      Answer1 == IF ~Skipped /\ Answer0 = "qaAll" THEN "qaSkip"
                 ELSE IF ~Skipped /\ Answer0 = "qaYes" THEN "qaRetry"
                 ELSE Answer0
      R == [Result |-> FALSE, Raised |-> "none", Prompted |-> ~Skipped,
            Answer |-> Answer1, SkipToAll |-> SkipToAll,
            Cancel |-> Progress.Cancel]
  IN IF ~Skipped /\ Reply.Raised # "none"
     THEN [R EXCEPT !.Raised = Reply.Raised, !.Answer = "none"]
     ELSE IF Answer1 # "qaRetry"
     THEN [R EXCEPT
             !.Cancel = IF Answer1 = "qaAbort" THEN "csCancel" ELSE @,
             !.Raised = IF AllowSkip THEN "EScpSkipFile" ELSE "ExtException"]
     ELSE [R EXCEPT !.Result = ~Skipped /\ Answer0 = "qaYes"]

NoLast == [Via |-> "none", AllowSkip |-> FALSE, SkipToAll |-> FALSE,
           Prompted |-> FALSE, Outcome |-> "none", E |-> "none",
           Action |-> 0, Retry |-> FALSE, Cancelled |-> FALSE, Raised |-> "none"]

\* a retry that goes on under the action of the failed attempt
OpenActionMutant(Actions) ==
  IF Actions = << >> THEN Append(Actions, PendingAction) ELSE Actions

\* the constructor of the session action at the entry of an operation
OpenAction(Actions) == Append(Actions, PendingAction)

\* the backend call of the operation runs under the last action
Attempt(Actions, Outcome) ==
  LET n == Len(Actions)
      A == [Actions[n] EXCEPT !.Attempts = @ + 1]
  IN [Actions EXCEPT ![n] = IF Outcome.ActionCancelled THEN ActionCancel(A) ELSE A]

\* an operation may start: nothing is running, cancelled or torn down
MayStart ==
  /\ rtPc \in {"idle", "returned", "skipped"}
  /\ rtProgress.Cancel = "csContinue"
  /\ Len(rtActions) < MaxActions

RtInit ==
  /\ rtPc = "idle"
  /\ rtProgress \in {NoProgress, NewProgress}
  /\ rtExceptionOnFail \in BOOLEAN
  /\ rtActions = << >>
  /\ rtLast = NoLast

\* one call of an operation written with COMMAND_ERROR_ARI_ACTION
\* (DoDeleteFile, DoRenameFile, DoCreateDirectory, DoChangeFileProperties,
\* ReadDirectoryListing, ReadFileListing): the action, the backend call and
\* the handling of its failure; a Retry answer leaves the repeated call,
\* made from within the handler, as the next step
AriOperation ==
  /\ (MayStart \/ (rtPc = "retry" /\ Len(rtActions) < MaxActions))
  /\ \E Outcome \in BackendOutcomes, Reply \in Replies :
       LET Actions0 == Attempt(OpenAction(rtActions), Outcome)
           n == Len(Actions0)
           CE == CommandError(Outcome.E, AriAnswers, rtProgress,
                              rtExceptionOnFail, Reply)
           Handled ==
             IF CE.Raised # "none"
             THEN [Action |-> RollbackAction(Actions0[n], NoProgress, CE.Raised),
                   Pc |-> "raised", Outcome |-> "raised"]
             ELSE IF CE.Result = "qaRetry"
             THEN [Action |-> ActionCancel(Actions0[n]),
                   Pc |-> "retry", Outcome |-> "retry"]
             ELSE IF CE.Result = "qaAbort"
             THEN [Action |-> RollbackAction(Actions0[n], NoProgress, Outcome.E),
                   Pc |-> "raised", Outcome |-> "abort"]
             ELSE [Action |-> ActionCancel(Actions0[n]),
                   Pc |-> "returned", Outcome |-> "skip"]
       IN /\ CommandErrorReply(AriAnswers, rtProgress, Reply)
          /\ Reply.Answer # "qaYes"
          /\ (Reply.Answer = "qaRetry" => n < MaxActions)
          /\ IF Outcome.E = "none"
             THEN /\ rtActions' = [Actions0 EXCEPT ![n] = ActionDestroy(@)]
                  /\ rtPc' = "returned"
                  /\ rtLast' = [NoLast EXCEPT !.Action = n,
                                              !.Retry = (rtPc = "retry")]
                  /\ UNCHANGED rtProgress
             ELSE /\ rtActions' = [Actions0 EXCEPT ![n] = ActionDestroy(Handled.Action)]
                  /\ rtPc' = Handled.Pc
                  /\ rtProgress' = [rtProgress EXCEPT !.SkipToAll = CE.SkipToAll]
                  /\ rtLast' = [Via |-> "CommandError",
                                AllowSkip |-> CanSkip(AriAnswers, rtProgress),
                                SkipToAll |-> rtProgress.SkipToAll,
                                Prompted |-> CE.Prompted,
                                Outcome |-> Handled.Outcome,
                                E |-> Outcome.E, Action |-> n,
                                Retry |-> (rtPc = "retry"),
                                Cancelled |-> Outcome.ActionCancelled,
                                Raised |-> CE.Raised]
  /\ UNCHANGED rtExceptionOnFail
  /\ UNCHANGED rtOthers

\* TTerminal::AnyCommand with DoAnyCommand
AnyCommand ==
  /\ MayStart
  /\ \E Outcome \in BackendOutcomes :
       LET Actions0 == Attempt(OpenAction(rtActions), Outcome)
           n == Len(Actions0)
           Rethrown == rtExceptionOnFail \/ Outcome.E = "EFatal"
       IN IF Outcome.E = "none"
          THEN /\ rtActions' = [Actions0 EXCEPT ![n] = ActionDestroy(@)]
               /\ rtPc' = "returned"
               /\ rtLast' = [NoLast EXCEPT !.Action = n]
          ELSE /\ rtActions' =
                    [Actions0 EXCEPT ![n] =
                       ActionDestroy(RollbackAction(@, NoProgress, Outcome.E))]
               /\ rtPc' = IF Rethrown THEN "raised" ELSE "returned"
               /\ rtLast' = [NoLast EXCEPT
                               !.Via = "DoAnyCommand",
                               !.SkipToAll = rtProgress.SkipToAll,
                               !.Outcome = IF Rethrown THEN "raised" ELSE "shown",
                               !.E = Outcome.E, !.Action = n]
  /\ UNCHANGED <<rtProgress, rtExceptionOnFail>>
  /\ UNCHANGED rtOthers

\* one round of FILE_OPERATION_LOOP_EX(AllowSkip, ...): the operation and,
\* when it fails with an ordinary exception, FileOperationLoopQuery
FileOperationLoop ==
  /\ (MayStart \/ rtPc = "loop")
  /\ rtProgress.Present
  /\ \E E \in Exceptions \cup {"none"}, AllowSkip \in BOOLEAN,
        SpecialRetry \in BOOLEAN, Reply \in Replies :
       LET Q == FileOperationLoopQuery(rtProgress, AllowSkip, SpecialRetry, Reply)
       IN /\ (Reply.Raised # "none" \/
              Reply.Answer \in LoopQueryOffers(AllowSkip, SpecialRetry))
          /\ (rtPc = "loop" => AllowSkip = rtLast.AllowSkip)
          /\ IF E = "none"
             THEN /\ rtPc' = "returned"
                  /\ rtLast' = NoLast
                  /\ UNCHANGED rtProgress
             ELSE IF E # "Exception"
             THEN /\ rtPc' = IF E = "EScpSkipFile" THEN "skipped" ELSE "raised"
                  /\ rtLast' = [NoLast EXCEPT !.E = E, !.Outcome = "raised"]
                  /\ UNCHANGED rtProgress
             ELSE /\ rtProgress' = [rtProgress EXCEPT !.SkipToAll = Q.SkipToAll,
                                                      !.Cancel = Q.Cancel]
                  /\ rtPc' = IF Q.Raised = "none" THEN "loop"
                             ELSE IF Q.Raised = "EScpSkipFile" /\ Q.Cancel = "csContinue"
                             THEN "skipped"
                             ELSE "raised"
                  /\ rtLast' = [Via |-> "FileOperationLoopQuery",
                                AllowSkip |-> AllowSkip,
                                SkipToAll |-> rtProgress.SkipToAll,
                                Prompted |-> Q.Prompted,
                                Outcome |-> IF Q.Answer = "qaRetry" THEN "retry"
                                            ELSE IF Q.Answer = "qaSkip" THEN "skip"
                                            ELSE IF Q.Answer = "qaAbort" THEN "abort"
                                            ELSE "raised",
                                E |-> E, Action |-> 0,
                                Retry |-> (rtPc = "loop"),
                                Cancelled |-> FALSE, Raised |-> Q.Raised]
  /\ UNCHANGED <<rtActions, rtExceptionOnFail>>
  /\ UNCHANGED rtOthers

-----------------------------------------------------------------------------
(* Remote delete and the recycle bin *)
dlOthers == <<syVars, rtVars, cfVars, trVars, ssVars, dcVars, cdVars, tuVars, scVars, pfVars, cgVars, sfVars, ttVars, opVars, roVars>>

\* a remote path is the sequence of its components, "/" first when it is
\* absolute; the empty UnicodeString is the empty sequence
EmptyPath == << >>
TrashPath == <<"/", "trash">>
WorkPath == <<"/", "work">>
DeleteNames ==
  {<<"f">>, TrashPath \o <<"f">>, TrashPath \o <<"sub", "f">>, WorkPath \o <<"f">>}
DeleteFlags == {"dfForceDelete", "dfAlternative"}
RecycleMask == "*-YYYYMMDD-HHMMSS.*"

\* UnixExtractFilePath: everything up to the last delimiter
UnixExtractFilePath(FileName) == SubSeq(FileName, 1, Len(FileName) - 1)
\* UnixExtractFileName: what follows the last delimiter
UnixExtractFileName(FileName) == FileName[Len(FileName)]
\* UnixComparePaths: equal but for a trailing delimiter
UnixComparePaths(Path1, Path2) == Path1 = Path2

\* IsRecycledFile without the current directory standing in for no path
IsRecycledFileMutant(Session, FileName) ==
  /\ Session.RecycleBinPath # EmptyPath
  /\ UnixComparePaths(UnixExtractFilePath(FileName), Session.RecycleBinPath)

\* TTerminal::IsRecycledFile
IsRecycledFile(Session, FileName) ==
  /\ Session.RecycleBinPath # EmptyPath
  /\ LET Path == UnixExtractFilePath(FileName)
     IN UnixComparePaths(IF Path = EmptyPath THEN Session.CurrentDirectory ELSE Path,
                         Session.RecycleBinPath)

\* TTerminal::MoveFile: what it asks of the backend
MoveFile(FileName, Target, FileMask) ==
  <<[Op |-> "FileModified", FileName |-> FileName],
    [Op |-> "RenameFile", FileName |-> FileName,
     NewName |-> [Path |-> Target, Mask |-> FileMask,
                  Name |-> UnixExtractFileName(FileName)]]>>

\* TTerminal::RecycleFile
RecycleFile(Session, FileName) ==
  IF ~IsRecycledFile(Session, FileName)
  THEN MoveFile(FileName, Session.RecycleBinPath, RecycleMask)
  ELSE << >>

\* Recycle with the test of the setting against dfAlternative turned round
RecycleMutant(Session, Params) ==
  /\ FLAGCLEAR(Params, "dfForceDelete")
  /\ (Session.DeleteToRecycleBin = FLAGSET(Params, "dfAlternative"))
  /\ Session.RecycleBinPath # EmptyPath

\* TTerminal::DeleteFile: the value of its local Recycle
Recycle(Session, Params) ==
  /\ FLAGCLEAR(Params, "dfForceDelete")
  /\ (Session.DeleteToRecycleBin # FLAGSET(Params, "dfAlternative"))
  /\ Session.RecycleBinPath # EmptyPath

\* TTerminal::DeleteFile past the check of the cancel flag
DeleteFileCalls(Session, FileName, File, Params) ==
  IF Recycle(Session, Params) /\ ~IsRecycledFile(Session, FileName)
  THEN RecycleFile(Session, FileName)
  ELSE (IF File THEN <<[Op |-> "FileModified", FileName |-> FileName]>> ELSE << >>)
       \o <<[Op |-> "DeleteFile", FileName |-> FileName]>>

NoCall == [FileName |-> EmptyPath, Params |-> {}, File |-> FALSE]

DlInit ==
  /\ dlPc = "idle"
  /\ dlSession \in [RecycleBinPath : {EmptyPath, TrashPath},
                    DeleteToRecycleBin : BOOLEAN,
                    CurrentDirectory : {TrashPath, WorkPath}]
  /\ dlCall = NoCall
  /\ dlLog = << >>

\* TTerminal::DeleteFile(FileName, File, Params), the backend succeeding
DeleteFile ==
  /\ \E FileName \in DeleteNames, Params \in SUBSET DeleteFlags,
        File \in BOOLEAN, Cancel \in {"csContinue", "csCancel"} :
       /\ dlCall' = [FileName |-> FileName, Params |-> Params, File |-> File]
       /\ IF Cancel # "csContinue"
          THEN dlPc' = "raised" /\ dlLog' = << >>
          ELSE /\ dlPc' = "returned"
               /\ dlLog' = DeleteFileCalls(dlSession, FileName, File, Params)
  /\ UNCHANGED dlSession
  /\ UNCHANGED dlOthers

-----------------------------------------------------------------------------
(* Overwrite confirmation *)
cfOthers == <<syVars, rtVars, dlVars, trVars, ssVars, dcVars, cdVars, tuVars, scVars, pfVars, cgVars, sfVars, ttVars, opVars, roVars>>

CopyFlags == {"cpResume", "cpAppend", "cpNewerOnly", "cpNoConfirmation"}
FileTimes == 1..(MaxTime + 1)
NoFileParams == [Present |-> FALSE]
\* TOverwriteFileParams; the source is two units long
OverwriteFileParams ==
  [Present : {TRUE}, SourceTimestamp : FileTimes, DestTimestamp : FileTimes,
   SourcePrecision : {Precisions[i] : i \in 1..Len(Precisions)},
   DestPrecision : {Precisions[i] : i \in 1..Len(Precisions)},
   SourceSize : {2}, DestSize : {1, 2}]
OverwriteAnswers ==
  {"qaYes", "qaNo", "qaCancel", "qaYesToAll", "qaNoToAll", "qaAll",
   "qaNeverAskAgain"}

\* TTerminal::EffectiveBatchOverwrite; Asserted tells that its assertion
\* on the progress does not hold
EffectiveBatchOverwrite(Params, BatchOverwrite, ConfirmOverwriting, Special) ==
  IF Special /\ FLAGSET(Params, "cpResume")
  THEN [Result |-> "boResume", Asserted |-> FALSE]
  ELSE IF FLAGSET(Params, "cpAppend")
  THEN [Result |-> "boAppend", Asserted |-> FALSE]
  ELSE IF FLAGSET(Params, "cpNewerOnly")
  THEN [Result |-> "boOlder", Asserted |-> FALSE]
  ELSE IF FLAGSET(Params, "cpNoConfirmation") \/ ~ConfirmOverwriting
  THEN [Result |-> "boAll", Asserted |-> BatchOverwrite # "boNo"]
  ELSE IF ~Special /\ BatchOverwrite \in {"boOlder", "boAlternateResume", "boResume"}
  THEN [Result |-> "boNo", Asserted |-> FALSE]
  ELSE [Result |-> BatchOverwrite, Asserted |-> FALSE]

\* the boOlder case answering Yes for equal times as well
OlderAnswerMutant(FileParams) ==
  IF /\ FileParams.Present
     /\ LET Precision == LessDateTimePrecision(FileParams.SourcePrecision,
                                               FileParams.DestPrecision)
        IN CompareFileTime(
             ReduceDateTimePrecision(FileParams.SourceTimestamp, Precision),
             ReduceDateTimePrecision(FileParams.DestTimestamp, Precision)) >= 0
  THEN "qaYes"
  ELSE "qaNo"

\* ConfirmFileOverwrite, case boOlder of its last switch
OlderAnswer(FileParams) ==
  IF /\ FileParams.Present
     /\ LET Precision == LessDateTimePrecision(FileParams.SourcePrecision,
                                               FileParams.DestPrecision)
        IN CompareFileTime(
             ReduceDateTimePrecision(FileParams.SourceTimestamp, Precision),
             ReduceDateTimePrecision(FileParams.DestTimestamp, Precision)) > 0
  THEN "qaYes"
  ELSE "qaNo"

\* TTerminal::ConfirmFileOverwrite; Reply is what QueryUser returns when
\* it is called, Debug tells that assertions are compiled in
ConfirmFileOverwrite(FileParams, Params, AsciiTransfer, BatchOverwrite0, ConfirmOverwriting, Reply, Debug) ==
  LET CanAlternateResume ==
        /\ FileParams.Present
        /\ FileParams.DestSize < FileParams.SourceSize
        /\ ~AsciiTransfer
      Special == EffectiveBatchOverwrite(Params, BatchOverwrite0,
                                         ConfirmOverwriting, TRUE)
      Applicable ==
        CASE Special.Result = "boOlder" -> FileParams.Present
          [] Special.Result \in {"boAlternateResume", "boResume"} -> CanAlternateResume
          [] OTHER -> TRUE
      Plain == EffectiveBatchOverwrite(Params, BatchOverwrite0,
                                       ConfirmOverwriting, FALSE)
      BatchOverwrite1 == IF Applicable THEN Special.Result ELSE Plain.Result
      Asserted ==
        \/ Special.Asserted
        \/ ~Applicable /\ (Plain.Asserted \/ Special.Result = Plain.Result)
      Failed ==
        (IF Special.Asserted \/ (~Applicable /\ Plain.Asserted)
         THEN {"EffectiveBatchOverwrite"} ELSE {})
        \cup (IF ~Applicable /\ Special.Result = Plain.Result
              THEN {"ConfirmFileOverwrite"} ELSE {})
      Prompted == BatchOverwrite1 = "boNo"
      BatchOverwrite2 ==
        IF ~Prompted THEN BatchOverwrite1
        ELSE CASE Reply = "qaYesToAll" -> "boAll"
               [] Reply = "qaAll" -> "boOlder"
               [] Reply = "qaNoToAll" -> "boNone"
               [] OTHER -> "boNo"
      Result ==
        CASE BatchOverwrite2 = "boNo" ->
               IF Reply = "qaNeverAskAgain" THEN "qaYes" ELSE Reply
          [] BatchOverwrite2 = "boAll" -> "qaYes"
          [] BatchOverwrite2 = "boNone" -> "qaNo"
          [] BatchOverwrite2 = "boOlder" -> OlderAnswer(FileParams)
          [] BatchOverwrite2 = "boAlternateResume" -> "qaSkip"
          [] OTHER -> "qaRetry"
  IN IF Debug /\ Asserted
     THEN [Result |-> "assert", Prompted |-> FALSE, Effective |-> Special.Result,
           Failed |-> Failed,
           BatchOverwrite |-> BatchOverwrite0,
           ConfirmOverwriting |-> ConfirmOverwriting]
     ELSE [Result |-> Result, Prompted |-> Prompted, Effective |-> Special.Result,
           Failed |-> Failed,
           BatchOverwrite |-> IF Prompted /\ BatchOverwrite2 # "boNo"
                              THEN BatchOverwrite2 ELSE BatchOverwrite0,
           ConfirmOverwriting |->
             ConfirmOverwriting /\ ~(Prompted /\ Reply = "qaNeverAskAgain")]

NoConfirm == [FileParams |-> NoFileParams, Called |-> FALSE, Result |-> "none",
              Prompted |-> FALSE, Effective |-> "boNo", Failed |-> {}]

CfInit ==
  /\ cfBatchOverwrite = "boNo"
  /\ cfConfirmOverwriting \in BOOLEAN
  /\ cfParams \in SUBSET CopyFlags
  /\ cfLast = NoConfirm

\* a transfer finds its destination to exist and asks
\* TTerminal::ConfirmFileOverwrite
ConfirmOverwrite ==
  /\ cfLast = NoConfirm
  /\ \E FileParams \in OverwriteFileParams \cup {NoFileParams},
        AsciiTransfer \in BOOLEAN, Reply \in OverwriteAnswers, Debug \in BOOLEAN :
       LET C == ConfirmFileOverwrite(FileParams, cfParams, AsciiTransfer,
                                     cfBatchOverwrite, cfConfirmOverwriting,
                                     Reply, Debug)
       IN /\ cfBatchOverwrite' = C.BatchOverwrite
          /\ cfConfirmOverwriting' = C.ConfirmOverwriting
          /\ cfLast' = [FileParams |-> FileParams, Called |-> TRUE,
                        Result |-> C.Result, Prompted |-> C.Prompted,
                        Effective |-> C.Effective, Failed |-> C.Failed]
  /\ UNCHANGED cfParams
  /\ UNCHANGED cfOthers

\* TTerminal::ProcessFiles: the bulk loop goes on to the next file of the
\* same operation, unless a failed assertion ended the program
ProcessNextFile ==
  /\ cfLast.Called
  /\ cfLast.Result # "assert"
  /\ cfLast' = NoConfirm
  /\ UNCHANGED <<cfBatchOverwrite, cfConfirmOverwriting, cfParams>>
  /\ UNCHANGED cfOthers

\* the prompt of TTerminal::DoCreateLocalFile for a read-only file that is
\* in the way: what the batch mode of the progress is afterwards
ReadOnlyOverwrite(BatchOverwrite, NoConfirmation, Answer) ==
  IF BatchOverwrite = "boNone" THEN BatchOverwrite
  ELSE IF BatchOverwrite # "boAll" /\ ~NoConfirmation
  THEN CASE Answer = "qaYesToAll" -> "boAll"
         [] Answer \in {"qaCancel", "qaNoToAll"} -> "boNone"
         [] OTHER -> BatchOverwrite
  ELSE BatchOverwrite

\* a download finds a read-only local file in its way: the prompt of
\* TTerminal::DoCreateLocalFile; NoConfirmation is the caller's
DoCreateLocalFile ==
  /\ cfLast.Result # "assert"
  /\ \E NoConfirmation \in BOOLEAN,
        Answer \in {"qaYes", "qaNo", "qaCancel", "qaYesToAll", "qaNoToAll"} :
       cfBatchOverwrite' = ReadOnlyOverwrite(cfBatchOverwrite, NoConfirmation, Answer)
  /\ UNCHANGED <<cfConfirmOverwriting, cfParams, cfLast>>
  /\ UNCHANGED cfOthers

-----------------------------------------------------------------------------
(* Transactions and the deferred rereads *)
trOthers == <<syVars, rtVars, dlVars, cfVars, ssVars, dcVars, cdVars, tuVars, scVars, pfVars, cgVars, sfVars, ttVars, opVars, roVars>>

\* how a backend read ends: well, with an error that is shown and passed
\* over, with an error raised to the caller (exception-on-fail), or with a
\* fatal error that closes the session
ReadOutcomes == {"ok", "shown", "raised", "fatal"}
Raises(Outcome) == Outcome \in {"raised", "fatal"}

\* the classes of TFSCommand that ReactOnCommand tells apart
Commands == {"fsChangeDirectory", "fsDeleteFile", "fsAnyCommand", "fsListDirectory"}
ChangesDirectory(Cmd) == Cmd \in {"fsChangeDirectory", "fsAnyCommand"}
ModifiesFiles(Cmd) == Cmd \in {"fsDeleteFile", "fsAnyCommand"}

\* InTransaction counting nested transactions only
InTransactionMutant(FInTransaction, FSuspendTransaction) ==
  FInTransaction > 1 /\ ~FSuspendTransaction

\* TTerminal::InTransaction
InTransaction(FInTransaction, FSuspendTransaction) ==
  FInTransaction > 0 /\ ~FSuspendTransaction

\* the terminal's fields the rereads work on
Terminal ==
  [Active |-> trActive,
   ReadCurrentDirectoryPending |-> trReadCurrentDirectoryPending,
   ReadDirectoryPending |-> trReadDirectoryPending,
   Calls |-> << >>, Raised |-> FALSE]

\* TTerminal::ReadCurrentDirectory
ReadCurrentDirectory(T, Outcome) ==
  [T EXCEPT !.ReadCurrentDirectoryPending = FALSE,
            !.Calls = Append(@, "ReadCurrentDirectory"),
            !.Active = @ /\ Outcome # "fatal",
            !.Raised = Raises(Outcome)]

\* TTerminal::ReadDirectory(ReloadOnly): the backend lists the directory
\* unless the listing came from the cache
ReadDirectory(T, ReloadOnly, Cached, Outcome) ==
  IF Cached /\ ~ReloadOnly
  THEN T
  ELSE [T EXCEPT !.Calls = Append(@, "ReadDirectory"),
                 !.Active = @ /\ Outcome # "fatal",
                 !.Raised = Raises(Outcome)]

\* TTerminal::ReactOnCommand
ReactOnCommand(T, Cmd, FInTransaction, FSuspendTransaction, AutoReadDirectory, AutoReadDirectoryAfterOp, Cached, Outcome1, Outcome2) ==
  IF ChangesDirectory(Cmd)
  THEN IF ~InTransaction(FInTransaction, FSuspendTransaction)
       THEN LET T1 == ReadCurrentDirectory(T, Outcome1)
            IN IF ~T1.Raised /\ AutoReadDirectory
               THEN ReadDirectory(T1, FALSE, Cached, Outcome2)
               ELSE T1
       ELSE [T EXCEPT !.ReadCurrentDirectoryPending = TRUE,
                      !.ReadDirectoryPending = @ \/ AutoReadDirectory]
  ELSE IF ModifiesFiles(Cmd) /\ AutoReadDirectory /\ AutoReadDirectoryAfterOp
  THEN IF ~InTransaction(FInTransaction, FSuspendTransaction)
       THEN ReadDirectory(T, TRUE, Cached, Outcome2)
       ELSE [T EXCEPT !.ReadDirectoryPending = TRUE]
  ELSE T

\* EndTransaction resetting the flags after the rereads, with no guard
EndTransactionRereadsMutant(T, Cached, Outcome1, Outcome2) ==
  LET T1 == IF T.ReadCurrentDirectoryPending
            THEN ReadCurrentDirectory(T, Outcome1) ELSE T
      T2 == IF ~T1.Raised /\ T1.ReadDirectoryPending
            THEN ReadDirectory(T1, ~T1.ReadCurrentDirectoryPending, Cached, Outcome2)
            ELSE T1
  IN IF T2.Raised THEN T2
     ELSE [T2 EXCEPT !.ReadCurrentDirectoryPending = FALSE,
                     !.ReadDirectoryPending = FALSE]

\* TTerminal::EndTransaction past the decrement, session active and
\* counter back at zero: the guarded rereads and the reset of the flags
EndTransactionRereads(T, Cached, Outcome1, Outcome2) ==
  LET T1 == IF T.ReadCurrentDirectoryPending
            THEN ReadCurrentDirectory(T, Outcome1) ELSE T
      T2 == IF ~T1.Raised /\ T1.ReadDirectoryPending
            THEN ReadDirectory(T1, ~T1.ReadCurrentDirectoryPending, Cached, Outcome2)
            ELSE T1
  IN [T2 EXCEPT !.ReadCurrentDirectoryPending = FALSE,
                !.ReadDirectoryPending = FALSE]

\* FCommandSession == NULL, and the secondary session as created
NoCommandSession == [Exists |-> FALSE, InTransaction |-> 0]
NewCommandSession == [Exists |-> TRUE, InTransaction |-> 0]

NoOp == [Op |-> "none", Cmd |-> "none", InTransaction |-> 0, Active |-> TRUE,
         Calls |-> << >>, Raised |-> FALSE]

TrInit ==
  /\ trInTransaction = 0
  /\ trReadCurrentDirectoryPending = FALSE
  /\ trReadDirectoryPending = FALSE
  /\ trActive = TRUE
  /\ trAutoReadDirectory \in BOOLEAN
  /\ trSuspendTransaction = FALSE
  /\ trCommandSession \in {NoCommandSession, NewCommandSession}
  /\ trLast = NoOp

\* TTerminal::BeginTransaction
BeginTransaction ==
  /\ trInTransaction < MaxNesting
  /\ trCommandSession.InTransaction < MaxNesting
  /\ IF trInTransaction = 0
     THEN trReadCurrentDirectoryPending' = FALSE /\ trReadDirectoryPending' = FALSE
     ELSE UNCHANGED <<trReadCurrentDirectoryPending, trReadDirectoryPending>>
  /\ trInTransaction' = trInTransaction + 1
  /\ trCommandSession' =
       IF trCommandSession.Exists
       THEN [trCommandSession EXCEPT !.InTransaction = @ + 1]
       ELSE trCommandSession
  /\ trLast' = [NoOp EXCEPT !.Op = "BeginTransaction",
                            !.InTransaction = trInTransaction,
                            !.Active = trActive]
  /\ UNCHANGED <<trActive, trAutoReadDirectory, trSuspendTransaction>>
  /\ UNCHANGED trOthers

\* TTerminal::EndTransaction
EndTransaction ==
  /\ \E Cached \in BOOLEAN, Outcome1 \in ReadOutcomes, Outcome2 \in ReadOutcomes :
       LET T == IF trActive /\ trInTransaction = 1
                THEN EndTransactionRereads(Terminal, Cached, Outcome1, Outcome2)
                ELSE Terminal
       IN IF trInTransaction = 0
          THEN /\ trLast' = [NoOp EXCEPT !.Op = "EndTransaction",
                                         !.Active = trActive, !.Raised = TRUE]
               /\ UNCHANGED <<trInTransaction, trReadCurrentDirectoryPending,
                              trReadDirectoryPending, trActive,
                              trCommandSession>>
          ELSE /\ trInTransaction' = trInTransaction - 1
               /\ trCommandSession' =
                    IF /\ trCommandSession.Exists /\ ~T.Raised
                       /\ trCommandSession.InTransaction > 0
                    THEN [trCommandSession EXCEPT !.InTransaction = @ - 1]
                    ELSE trCommandSession
               /\ trReadCurrentDirectoryPending' = T.ReadCurrentDirectoryPending
               /\ trReadDirectoryPending' = T.ReadDirectoryPending
               /\ trActive' = T.Active
               /\ trLast' = [Op |-> "EndTransaction", Cmd |-> "none",
                             InTransaction |-> trInTransaction,
                             Active |-> trActive,
                             Calls |-> T.Calls, Raised |-> T.Raised]
  /\ UNCHANGED <<trAutoReadDirectory, trSuspendTransaction>>
  /\ UNCHANGED trOthers

\* a backend command has succeeded on the open session and the terminal
\* reacts on it
ReactOnCommandCall ==
  /\ trActive
  /\ \E Cmd \in Commands, AutoReadDirectoryAfterOp \in BOOLEAN, Cached \in BOOLEAN,
        Outcome1 \in ReadOutcomes, Outcome2 \in ReadOutcomes :
       LET T == ReactOnCommand(Terminal, Cmd, trInTransaction, trSuspendTransaction,
                               trAutoReadDirectory, AutoReadDirectoryAfterOp,
                               Cached, Outcome1, Outcome2)
       IN /\ trReadCurrentDirectoryPending' = T.ReadCurrentDirectoryPending
          /\ trReadDirectoryPending' = T.ReadDirectoryPending
          /\ trActive' = T.Active
          /\ trLast' = [Op |-> "ReactOnCommand", Cmd |-> Cmd,
                        InTransaction |-> trInTransaction, Active |-> trActive,
                        Calls |-> T.Calls, Raised |-> T.Raised]
  /\ UNCHANGED <<trInTransaction, trAutoReadDirectory, trSuspendTransaction,
                 trCommandSession>>
  /\ UNCHANGED trOthers

\* TTerminal::FatalError: a backend command fails fatally and the session
\* is closed, whatever transactions are open
FatalError ==
  /\ trActive
  /\ trActive' = FALSE
  /\ trLast' = [NoOp EXCEPT !.Op = "FatalError", !.InTransaction = trInTransaction,
                            !.Raised = TRUE]
  /\ UNCHANGED <<trInTransaction, trReadCurrentDirectoryPending,
                 trReadDirectoryPending, trAutoReadDirectory, trSuspendTransaction,
                 trCommandSession>>
  /\ UNCHANGED trOthers

-----------------------------------------------------------------------------
(* Retry handling, delete, overwrite confirmation, transactions: properties *)

\* the last failure reached the query of the retry handling: it was no
\* fatal error, no abort, and exception-on-fail did not turn it into a raise
Queried ==
  \/ rtLast.Via = "FileOperationLoopQuery"
  \/ /\ rtLast.Via = "CommandError"
     /\ rtLast.E \notin {"EFatal", "EAbort"}
     /\ ~rtExceptionOnFail

\* C5 as stated: with skip-to-all set, every failure handled by
\* FileOperationLoopQuery or by CommandError with answers is skipped with
\* no query of the user, whoever the caller is
C5_Original ==
  (Queried /\ rtLast.SkipToAll) => (rtLast.Outcome = "skip" /\ ~rtLast.Prompted)

\* C5: with skip-to-all set, a failure handled by FileOperationLoopQuery
\* called with AllowSkip, or by CommandError with qaSkip among its answers
\* and an operation progress at hand, is skipped with no query of the user
C5_SkipToAll ==
  (Queried /\ rtLast.SkipToAll /\ rtLast.AllowSkip)
    => (rtLast.Outcome = "skip" /\ ~rtLast.Prompted)

C5_Witness ==
  /\ rtLast.Via = "FileOperationLoopQuery"
  /\ rtLast.SkipToAll /\ rtLast.AllowSkip
  /\ rtLast.Outcome = "skip" /\ ~rtLast.Prompted

\* C6: every session action an operation opened has received exactly one
\* of Commit, Cancel and Rollback once the handling of the attempt is over,
\* and carried exactly one attempt: a retry runs under an action of its own
C6_ActionsTerminated ==
  \A i \in DOMAIN rtActions :
    /\ rtActions[i].State \in {"committed", "cancelled", "rolledback"}
    /\ rtActions[i].Transitions = 1
    /\ rtActions[i].Attempts = 1

C6_Witness ==
  /\ rtLast.Via = "CommandError" /\ rtLast.Retry
  /\ rtLast.Outcome = "raised" /\ rtLast.Prompted
  /\ rtLast.Action = Len(rtActions) /\ Len(rtActions) >= 2
  /\ rtActions[Len(rtActions) - 1].State = "cancelled"
  /\ rtActions[Len(rtActions)].State = "rolledback"

\* Path1 is Path2 or lies below it
IsPrefix(Path2, Path1) ==
  Len(Path2) <= Len(Path1) /\ SubSeq(Path1, 1, Len(Path2)) = Path2

\* the directory a file name of the last DeleteFile call stands for
DeleteDirectory ==
  IF Len(dlCall.FileName) > 1 THEN UnixExtractFilePath(dlCall.FileName)
  ELSE dlSession.CurrentDirectory

OpsOf(Log) == {Log[i].Op : i \in DOMAIN Log}
HardDeleted == "DeleteFile" \in OpsOf(dlLog) /\ "RenameFile" \notin OpsOf(dlLog)
Recycled ==
  /\ "DeleteFile" \notin OpsOf(dlLog)
  /\ \E i \in DOMAIN dlLog :
       /\ dlLog[i].Op = "RenameFile"
       /\ dlLog[i].FileName = dlCall.FileName
       /\ dlLog[i].NewName = [Path |-> dlSession.RecycleBinPath,
                              Mask |-> RecycleMask,
                              Name |-> UnixExtractFileName(dlCall.FileName)]

\* C7 as stated: a file anywhere below the recycle-bin path is deleted by
\* the backend and never renamed
C7_Original ==
  (/\ dlPc = "returned"
   /\ dlSession.RecycleBinPath # EmptyPath
   /\ IsPrefix(dlSession.RecycleBinPath, DeleteDirectory))
    => HardDeleted

\* C7: a file whose own directory is the recycle-bin path (the current
\* directory standing in for a name without a path) is deleted by the
\* backend and never renamed, whatever the setting and the params are
C7_RecycledFileDeleted ==
  (/\ dlPc = "returned"
   /\ dlSession.RecycleBinPath # EmptyPath
   /\ DeleteDirectory = dlSession.RecycleBinPath)
    => HardDeleted

C7_Witness ==
  /\ dlPc = "returned"
  /\ dlSession.RecycleBinPath = TrashPath /\ dlSession.DeleteToRecycleBin
  /\ dlCall.FileName = TrashPath \o <<"f">> /\ dlCall.Params = {}
  /\ HardDeleted

\* C8 as stated: with delete-to-recycle on, a recycle path set and the file
\* outside of it, the delete is a rename into the recycle path and no
\* backend delete, for every value of the params
C8_Original ==
  (/\ dlPc = "returned"
   /\ dlSession.DeleteToRecycleBin
   /\ dlSession.RecycleBinPath # EmptyPath
   /\ ~IsPrefix(dlSession.RecycleBinPath, DeleteDirectory))
    => Recycled

\* C8: with delete-to-recycle on, a recycle path set, the file's directory
\* not the recycle path, and neither dfForceDelete nor dfAlternative among
\* the params, the delete is a rename into the recycle path under the
\* timestamp mask and no backend delete
C8_DeleteRecycles ==
  (/\ dlPc = "returned"
   /\ dlSession.DeleteToRecycleBin
   /\ dlSession.RecycleBinPath # EmptyPath
   /\ DeleteDirectory # dlSession.RecycleBinPath
   /\ dlCall.Params \cap {"dfForceDelete", "dfAlternative"} = {})
    => Recycled

C8_Witness ==
  /\ dlPc = "returned"
  /\ dlSession.DeleteToRecycleBin /\ dlSession.RecycleBinPath = TrashPath
  /\ dlCall.FileName = WorkPath \o <<"f">> /\ dlCall.Params = {}
  /\ Recycled

\* the rank of a precision: the lower, the coarser
Coarser(p1, p2) == IF PrecisionRank(p1) <= PrecisionRank(p2) THEN p1 ELSE p2

\* the source is strictly newer once both times are cut to the coarser of
\* the two precisions
SourceNewer(FileParams) ==
  LET p == Coarser(FileParams.SourcePrecision, FileParams.DestPrecision)
  IN ReduceDateTimePrecision(FileParams.SourceTimestamp, p)
       > ReduceDateTimePrecision(FileParams.DestTimestamp, p)

\* C9: when the batch mode in effect at a call of ConfirmFileOverwrite is
\* boOlder and the timestamps are given, the answer is Yes if the source
\* is strictly newer at the coarser precision and No if not, and the user
\* is not asked
C9_OlderAnswers ==
  (cfLast.Called /\ cfLast.Effective = "boOlder" /\ cfLast.FileParams.Present)
    => /\ ~cfLast.Prompted
       /\ cfLast.Result = IF SourceNewer(cfLast.FileParams) THEN "qaYes" ELSE "qaNo"

C9_Witness ==
  /\ cfLast.Called /\ cfLast.Effective = "boOlder" /\ cfLast.FileParams.Present
  /\ cfBatchOverwrite = "boOlder"
  /\ cfLast.FileParams.SourceTimestamp > cfLast.FileParams.DestTimestamp
  /\ cfLast.FileParams.SourcePrecision = "mfFull"
  /\ cfLast.FileParams.DestPrecision = "mfMinute"
  /\ cfLast.Result = "qaNo"

CountOf(Calls, Op) == Cardinality({i \in DOMAIN Calls : Calls[i] = Op})

\* C10: BeginTransaction, an EndTransaction that is not the outermost, and
\* ReactOnCommand inside a transaction issue no reread; the outermost
\* EndTransaction of an active session issues at most one reread of the
\* current directory and at most one of the directory
C10_TransactionRereads ==
  /\ (trLast.Op = "BeginTransaction") => trLast.Calls = << >>
  /\ (trLast.Op = "ReactOnCommand" /\ trLast.InTransaction > 0)
       => trLast.Calls = << >>
  /\ (trLast.Op = "EndTransaction" /\ trLast.InTransaction > 1)
       => trLast.Calls = << >>
  /\ (trLast.Op = "EndTransaction" /\ trLast.InTransaction = 1 /\ trLast.Active)
       => /\ CountOf(trLast.Calls, "ReadCurrentDirectory") <= 1
          /\ CountOf(trLast.Calls, "ReadDirectory") <= 1

C10_Witness ==
  /\ trLast.Op = "EndTransaction" /\ trLast.InTransaction = 1 /\ trLast.Active
  /\ trLast.Calls = <<"ReadCurrentDirectory", "ReadDirectory">>
  /\ trInTransaction = 0

-----------------------------------------------------------------------------
(* Session lifecycle: Open, Close, Reopen, the tunnel and the reopen query *)
ssOthers == <<syVars, rtVars, dlVars, cfVars, dcVars, cdVars, tuVars, scVars, pfVars, cgVars, sfVars, ttVars, opVars, roVars>>

MaxRetries == 1        \* largest SessionReopenAutoMaximumNumberOfRetries tried
MaxSessionNesting == 1 \* depth of the transactions around lifecycle operations
MaxExceptionOnFail == 1 \* largest FExceptionOnFail around lifecycle operations

\* TSessionStatus
SessionStatuses == {"ssClosed", "ssOpening", "ssOpened", "ssClosing"}

HomeDirectory == "/home"   \* where the server puts a fresh session
WorkDirectory == "/work"   \* the remote directory a descriptor may ask for

\* no tunnel object exists, and the tunnel as OpenTunnel leaves it
NoTunnel ==
  [Thread |-> FALSE, Shell |-> FALSE, UI |-> FALSE, Log |-> FALSE,
   Data |-> FALSE, LocalPortNumber |-> 0]
UpTunnel ==
  [Thread |-> TRUE, Shell |-> TRUE, UI |-> TRUE, Log |-> TRUE,
   Data |-> TRUE, LocalPortNumber |-> 1]

\* how one pass of Open's loop can end: the tunnel finds no free port or
\* its shell fails to open; the backend fails to open with a fatal error
\* before or after its connection became active, or with another exception;
\* the startup conversation fails fatally or with another exception
OpenOutcomes ==
  {"ok", "tunnelNoPort", "tunnelFail", "backendFatal", "backendFatalActive",
   "backendError", "startupFatal", "startupError"}
TunnelOutcomes == {"tunnelNoPort", "tunnelFail"}

\* the terminal's fields the lifecycle operations work on; Moves holds the
\* assignments to FStatus as <<from, to>>, Calls the parts of Open that ran
\* and the reopen prompts, Teardowns the order of the steps of each teardown
\* of the tunnel, Asked the reopen prompts since the last successful Open,
\* AskedAtBound a prompt made with the retry counter at its bound, Raised the
\* exception in flight: "none", "error" (not an EFatal), "fatal" (an EFatal nobody was
\* asked about yet), "unqueried" (such an EFatal leaving Open) or "queried"
SessionTerminal ==
  [Status |-> ssStatus, FileSystem |-> ssFileSystem, FSProtocol |-> ssFSProtocol,
   Tunnel |-> ssTunnel, DirectoryChangesCache |-> ssDirectoryChangesCache,
   FilesDirectory |-> ssFilesDirectory, CurrentDirectory |-> ssCurrentDirectory,
   Data |-> ssData, ExceptionOnFail |-> ssExceptionOnFail, Asked |-> ssAsked,
   InTransaction |-> trInTransaction,
   ReadCurrentDirectoryPending |-> trReadCurrentDirectoryPending,
   ReadDirectoryPending |-> trReadDirectoryPending,
   AutoReadDirectory |-> trAutoReadDirectory,
   SuspendTransaction |-> trSuspendTransaction,
   ServerDirectory |-> ssServerDirectory,
   LastDirectoryChange |-> ssLastDirectoryChange,
   Moves |-> {}, Calls |-> {}, Teardowns |-> {}, Raised |-> "none",
   Reopen |-> FALSE, AskedAtBound |-> FALSE]

SetStatus(S, Status) ==
  [S EXCEPT !.Status = Status, !.Moves = @ \cup {<<S.Status, Status>>}]
Event(S, E) == [S EXCEPT !.Calls = @ \cup {E}]

\* TTerminal::GetActive
GetActive(S) == S.FileSystem = "active"

\* TTerminal::CloseTunnel; the steps it takes are recorded in their order
CloseTunnel(S) ==
  LET Steps == (IF S.Tunnel.Thread THEN <<"TerminateThread">> ELSE << >>)
                 \o <<"GetLastTunnelError", "DestroyTunnel", "DestroyTunnelUI",
                      "DestroyTunnelLog", "DestroyTunnelData", "ResetPort">>
  IN [S EXCEPT !.Tunnel = NoTunnel, !.Teardowns = @ \cup {Steps}]

\* An operation that calls other operations is the set of the terminals it
\* can leave; each step's terminal is bound before the next step reads it.

\* TTerminal::Closed, which the backend calls (TSessionUI::Closed) when its
\* connection is gone
Closed(S) ==
  { SetStatus(S1, "ssClosed") : S1 \in {IF S.Tunnel.Shell THEN CloseTunnel(S) ELSE S} }

\* TTerminal::Close: the backend closes its connection and reports Closed
Close(S) == Closed([S EXCEPT !.FileSystem = "inactive"])

\* TTerminal::FatalError; SecureShellActive: Open's own secure shell, not
\* yet handed to a backend, is connected
SessionFatalError(S, SecureShellActive) ==
  { [S2 EXCEPT !.Raised = "fatal"] :
    S2 \in UNION { IF SecureShellActive THEN Closed(S1) ELSE {S1} :
                   S1 \in (IF GetActive(S) THEN Close(S) ELSE {S}) } }

\* TTerminal::ResetConnection
ResetConnection(S) ==
  [S EXCEPT !.DirectoryChangesCache = "null", !.FilesDirectory = ""]

\* DoQueryReopen that does not count the attempt
DoQueryReopenUncountedMutant(S, Answer) ==
  IF S.Raised = "queried"
  THEN [S EXCEPT !.Reopen = FALSE]
  ELSE IF S.Data.NumberOfRetries >= ssConfiguration.SessionReopenAutoMaximumNumberOfRetries
  THEN [S EXCEPT !.Reopen = FALSE, !.Raised = "queried"]
  ELSE [S EXCEPT !.Calls = @ \cup {"QueryReopen"},
                 !.Reopen = (Answer = "qaRetry"),
                 !.Raised = "queried"]

\* TTerminal::DoQueryReopen comparing with > instead of >=
DoQueryReopenMutant(S, Answer) ==
  IF S.Raised = "queried"
  THEN [S EXCEPT !.Reopen = FALSE]
  ELSE IF S.Data.NumberOfRetries > ssConfiguration.SessionReopenAutoMaximumNumberOfRetries
  THEN [S EXCEPT !.Reopen = FALSE, !.Raised = "queried"]
  ELSE [S EXCEPT !.Data.NumberOfRetries = @ + 1,
                 !.Asked = @ + 1,
                 !.AskedAtBound = @ \/ (S.Data.NumberOfRetries >= ssConfiguration.SessionReopenAutoMaximumNumberOfRetries),
                 !.Calls = @ \cup {"QueryReopen"},
                 !.Reopen = (Answer = "qaRetry"),
                 !.Raised = "queried"]

\* TTerminal::DoQueryReopen on the exception in flight
DoQueryReopen(S, Answer) ==
  IF S.Raised = "queried"
  THEN [S EXCEPT !.Reopen = FALSE]
  ELSE IF S.Data.NumberOfRetries >= ssConfiguration.SessionReopenAutoMaximumNumberOfRetries
  THEN [S EXCEPT !.Reopen = FALSE, !.Raised = "queried"]
  ELSE [S EXCEPT !.Data.NumberOfRetries = @ + 1,
                 !.Asked = @ + 1,
                 !.AskedAtBound = @ \/ (S.Data.NumberOfRetries >= ssConfiguration.SessionReopenAutoMaximumNumberOfRetries),
                 !.Calls = @ \cup {"QueryReopen"},
                 !.Reopen = (Answer = "qaRetry"),
                 !.Raised = "queried"]

\* TTerminal::BeginTransaction on the terminal record
SessionBeginTransaction(S) ==
  [S EXCEPT !.ReadCurrentDirectoryPending = IF S.InTransaction = 0 THEN FALSE ELSE @,
            !.ReadDirectoryPending = IF S.InTransaction = 0 THEN FALSE ELSE @,
            !.InTransaction = @ + 1]

\* TTerminal::ReadCurrentDirectory on the terminal record: the backend
\* reports the server's directory; a change that ChangeDirectory asked for
\* is recorded in the change cache
SessionReadCurrentDirectory(S) ==
  LET Learns == /\ S.Data.CacheDirectoryChanges /\ S.DirectoryChangesCache # "null"
                /\ S.ServerDirectory # "" /\ S.LastDirectoryChange
                /\ S.ServerDirectory # S.CurrentDirectory
  IN [S EXCEPT !.ReadCurrentDirectoryPending = FALSE,
               !.CurrentDirectory = S.ServerDirectory,
               !.DirectoryChangesCache = IF Learns THEN "learned" ELSE @,
               !.LastDirectoryChange = IF S.Data.CacheDirectoryChanges THEN FALSE ELSE @]

\* TTerminal::ReadDirectory on the terminal record
SessionReadDirectory(S) ==
  [S EXCEPT !.FilesDirectory = S.CurrentDirectory]

\* the rereads of the outermost EndTransaction of an active session
SessionRereads(S) ==
  { [S2 EXCEPT !.ReadCurrentDirectoryPending = FALSE, !.ReadDirectoryPending = FALSE] :
    S2 \in { IF S1.ReadDirectoryPending THEN SessionReadDirectory(S1) ELSE S1 :
            S1 \in {IF S.ReadCurrentDirectoryPending THEN SessionReadCurrentDirectory(S) ELSE S} } }

\* TTerminal::EndTransaction on the terminal record: with no transaction
\* open it raises a terminal error before anything else
SessionEndTransaction(S) ==
  IF S.InTransaction = 0 THEN {[S EXCEPT !.Raised = "error"]}
  ELSE
  UNION { IF GetActive(S1) /\ S1.InTransaction = 0 THEN SessionRereads(S1) ELSE {S1} :
          S1 \in {[S EXCEPT !.InTransaction = @ - 1]} }

\* SetExceptionOnFail that counts down whatever the counter is
SessionSetExceptionOnFailMutant(S, value) ==
  [S EXCEPT !.ExceptionOnFail = IF value THEN @ + 1 ELSE @ - 1]

\* TTerminal::SetExceptionOnFail on the terminal record: true counts up,
\* false counts down and raises when the counter is already zero
SessionSetExceptionOnFail(S, value) ==
  IF value THEN [S EXCEPT !.ExceptionOnFail = @ + 1]
  ELSE IF S.ExceptionOnFail = 0 THEN [S EXCEPT !.Raised = "error"]
  ELSE [S EXCEPT !.ExceptionOnFail = @ - 1]

\* TTerminal::ChangeDirectory to the work directory, with the
\* ReactOnCommand(fsChangeDirectory) that follows it
SessionChangeDirectory(S) ==
  UNION { IF InTransaction(S1.InTransaction, S1.SuspendTransaction)
          THEN {[S1 EXCEPT !.ReadCurrentDirectoryPending = TRUE,
                           !.ReadDirectoryPending = @ \/ S1.AutoReadDirectory]}
          ELSE { IF S2.AutoReadDirectory THEN SessionReadDirectory(S2) ELSE S2 :
                 S2 \in {SessionReadCurrentDirectory(S1)} } :
          S1 \in {[S EXCEPT !.ServerDirectory = WorkDirectory, !.LastDirectoryChange = TRUE]} }

\* TTerminal::DoStartup
DoStartup(S, Outcome) ==
  UNION { SessionEndTransaction(S2) :
          S2 \in UNION { IF Outcome = "startupFatal" THEN SessionFatalError(S1, FALSE)
                         ELSE IF Outcome = "startupError" THEN {[S1 EXCEPT !.Raised = "error"]}
                         ELSE IF S1.Data.RemoteDirectory # "" THEN SessionChangeDirectory(S1)
                         ELSE {S1} :
                         S1 \in {[SessionBeginTransaction(Event(S, "DoStartup"))
                                   EXCEPT !.ReadCurrentDirectoryPending = TRUE,
                                          !.ReadDirectoryPending = S.AutoReadDirectory]} } }

\* TTerminal::OpenTunnel
OpenTunnel(S, Outcome) ==
  IF Outcome = "tunnelNoPort"
  THEN SessionFatalError(S, FALSE)
  ELSE IF Outcome = "tunnelFail"
  THEN { [CloseTunnel(S1) EXCEPT !.Raised = "fatal"] :
         S1 \in {Event([S EXCEPT !.Tunnel = [UpTunnel EXCEPT !.Thread = S.Tunnel.Thread]], "OpenTunnel")} }
  ELSE {Event([S EXCEPT !.Tunnel = UpTunnel], "OpenTunnel")}

\* the secure-shell protocols, whose backend exists only once its shell is open
SecureShellProtocols == {"fsSFTP", "fsSFTPonly", "fsSCPonly"}

\* the FFSProtocol that Open settles on
ChosenFSProtocol(FSProtocol, Fallback) ==
  IF FSProtocol = "fsFTP" THEN "cfsFTP"
  ELSE IF FSProtocol = "fsSCPonly" \/ (FSProtocol = "fsSFTP" /\ Fallback)
  THEN "cfsSCP" ELSE "cfsSFTP"

\* Open's backend step: a new backend is built and opened, a bound one is
\* opened again
OpenFileSystem(S, Outcome) ==
  LET New == S.FileSystem = "null"
      Ssh == S.Data.FSProtocol \in SecureShellProtocols
      Failed == [S EXCEPT !.FileSystem = IF New /\ Ssh THEN "null" ELSE "inactive",
                          !.Calls = @ \cup {"FileSystemOpen"}]
  IN IF Outcome = "backendFatal" THEN SessionFatalError(Failed, FALSE)
     ELSE IF Outcome = "backendError" THEN {[Failed EXCEPT !.Raised = "error"]}
     ELSE IF Outcome = "backendFatalActive"
     THEN IF New /\ Ssh
          THEN SessionFatalError(Failed, TRUE)
          ELSE SessionFatalError([Failed EXCEPT !.FileSystem = "active"], FALSE)
     ELSE {[S EXCEPT !.FileSystem = "active",
                     !.Calls = @ \cup {"FileSystemOpen"},
                     !.FSProtocol = IF New THEN ChosenFSProtocol(S.Data.FSProtocol, Outcome = "okFallback") ELSE @,
                     !.ServerDirectory = HomeDirectory,
                     !.CurrentDirectory = IF New THEN "" ELSE @]}

\* Open up to the end of its inner block: the tunnel, then the backend
OpenConnection(S, Outcome) ==
  UNION { IF S2.Raised = "none" THEN OpenFileSystem(S2, Outcome) ELSE {S2} :
          S2 \in UNION { IF S1.Data.Tunnel THEN OpenTunnel(S1, Outcome) ELSE {S1} :
                         S1 \in {SetStatus(ResetConnection(S), "ssOpening")} } }

\* Open from the change cache on: the cache is created and DoStartup runs
OpenStartup(S, Outcome) ==
  UNION { IF S1.Raised = "none" THEN DoStartup(S1, Outcome) ELSE {S1} :
          S1 \in {IF S.Raised = "none" /\ S.Data.CacheDirectoryChanges
                  THEN [S EXCEPT !.DirectoryChangesCache = "empty"] ELSE S} }

\* one pass of Open that sets ssOpened although the pass failed
OpenAttemptMutant(S, Outcome) ==
  { IF S2.Raised = "none"
    THEN SetStatus(S2, "ssOpened")
    ELSE SetStatus([S2 EXCEPT !.DirectoryChangesCache = "null"], "ssOpened") :
    S2 \in UNION { OpenStartup(S1, Outcome) : S1 \in OpenConnection(S, Outcome) } }

\* one pass of the loop of TTerminal::Open, up to its exception handlers
OpenAttempt(S, Outcome) ==
  { IF S2.Raised = "none"
    THEN SetStatus(S2, "ssOpened")
    ELSE [S2 EXCEPT !.DirectoryChangesCache = "null"] :
    S2 \in UNION { OpenStartup(S1, Outcome) : S1 \in OpenConnection(S, Outcome) } }

\* the outcomes one pass of Open can have for this descriptor
ApplicableOutcomes(S) ==
  (OpenOutcomes \ (IF S.Data.Tunnel THEN {} ELSE TunnelOutcomes))
    \cup (IF S.FileSystem = "null" /\ S.Data.FSProtocol = "fsSFTP"
          THEN {"okFallback"} ELSE {})

\* Open's cleanup before it tries again
OpenCleanup(S) ==
  LET Steps == (IF S.Tunnel.Data THEN <<"DestroyTunnelData">> ELSE << >>)
                 \o (IF S.Tunnel.Shell THEN <<"DestroyTunnel">> ELSE << >>)
  IN [S EXCEPT !.FileSystem = "null",
               !.Tunnel.Data = FALSE,
               !.Status = "ssClosed",
               !.Moves = @ \cup {<<S.Status, "ssClosed">>},
               !.Tunnel.Shell = FALSE,
               !.Teardowns = IF Steps # << >> THEN @ \cup {Steps} ELSE @,
               !.Raised = "none", !.Reopen = FALSE]

\* the exception handlers of Open's loop for the terminal A a pass left
RECURSIVE OpenResults(_)
OpenHandlers(A) ==
  IF A.Raised = "none"
  THEN {[A EXCEPT !.Data.NumberOfRetries = 0, !.Asked = 0]}
  ELSE IF A.Raised = "error"
  THEN { [F EXCEPT !.Raised = "unqueried"] : F \in SessionFatalError(A, FALSE) }
  ELSE UNION { IF Q.Reopen
               THEN UNION { OpenResults(C) : C \in {OpenCleanup(Q)} }
               ELSE {Q} :
               Q \in { DoQueryReopen(A, Answer) : Answer \in {"qaRetry", "qaAbort"} } }

\* TTerminal::Open: every way the loop can run
OpenResults(S) ==
  UNION { UNION { OpenHandlers(A) : A \in OpenAttempt(S, O) } : O \in ApplicableOutcomes(S) }

\* the parameters of Reopen
ReopenParams == {{}, {"ropNoReadDirectory"}}

\* Reopen up to the call of Open: the saved fields are overwritten and an
\* active session is closed
ReopenPrepare(S, Params) ==
  UNION { IF GetActive(S1) THEN Close(S1) ELSE {S1} :
          S1 \in {[S EXCEPT !.ReadCurrentDirectoryPending = FALSE,
                            !.ReadDirectoryPending = FALSE,
                            !.SuspendTransaction = TRUE,
                            !.ExceptionOnFail = 0,
                            !.AutoReadDirectory = IF "ropNoReadDirectory" \in Params THEN FALSE ELSE @,
                            !.Data.RemoteDirectory = IF S.CurrentDirectory # "" THEN S.CurrentDirectory ELSE @,
                            !.Data.FSProtocol = IF @ = "fsSFTP"
                                                THEN (IF S.FSProtocol = "cfsSCP" THEN "fsSCPonly" ELSE "fsSFTPonly")
                                                ELSE @]} }

\* Reopen restoring the saved fields only when Open returned
ReopenRestoreMutant(S, R) ==
  IF R.Raised # "none"
  THEN [R EXCEPT !.SuspendTransaction = FALSE]
  ELSE [R EXCEPT !.Data.RemoteDirectory = S.Data.RemoteDirectory,
                 !.Data.FSProtocol = S.Data.FSProtocol,
                 !.AutoReadDirectory = S.AutoReadDirectory,
                 !.ReadCurrentDirectoryPending = S.ReadCurrentDirectoryPending,
                 !.ReadDirectoryPending = S.ReadDirectoryPending,
                 !.SuspendTransaction = FALSE,
                 !.ExceptionOnFail = S.ExceptionOnFail]

\* the finally block of Reopen; S is the terminal at entry, R after Open
ReopenRestore(S, R) ==
  [R EXCEPT !.Data.RemoteDirectory = S.Data.RemoteDirectory,
            !.Data.FSProtocol = S.Data.FSProtocol,
            !.AutoReadDirectory = S.AutoReadDirectory,
            !.ReadCurrentDirectoryPending = S.ReadCurrentDirectoryPending,
            !.ReadDirectoryPending = S.ReadDirectoryPending,
            !.SuspendTransaction = FALSE,
            !.ExceptionOnFail = S.ExceptionOnFail]

\* TTerminal::Reopen: every way it can run
ReopenResults(S, Params) ==
  { ReopenRestore(S, R) : R \in UNION { OpenResults(P) : P \in ReopenPrepare(S, Params) } }

\* QueryReopen after the answer Q of DoQueryReopen
RECURSIVE ReopenLoop(_, _)
ReopenAnswered(Q, Params) ==
  IF Q.Reopen
  THEN UNION { ReopenLoop(N, Params) : N \in {[Q EXCEPT !.Raised = "none"]} }
  ELSE {[Q EXCEPT !.Raised = "none"]}

\* the loop of TTerminal::QueryReopen; the reopen timeout may have passed
ReopenLoop(S, Params) ==
  UNION { IF R.Raised = "none"
          THEN {[R EXCEPT !.Data.NumberOfRetries = 0, !.Reopen = TRUE]}
          ELSE IF GetActive(R)
          THEN {R}
          ELSE UNION { ReopenAnswered(Q, Params) :
                       Q \in {[R EXCEPT !.Reopen = FALSE]}
                              \cup { DoQueryReopen(R, Answer) : Answer \in {"qaRetry", "qaAbort"} } } :
          R \in ReopenResults(S, Params) }

\* TTerminal::QueryReopen for a fatal error nobody was asked about yet
QueryReopenResults(S, Params) ==
  UNION { ReopenAnswered(Q, Params) :
          Q \in { DoQueryReopen([S EXCEPT !.Raised = "fatal"], Answer) : Answer \in {"qaRetry", "qaAbort"} } }

\* the terminal record becomes the fields of the terminal; Op names the
\* operation
SessionFieldsStore(R, Op) ==
  /\ ssStatus' = R.Status
  /\ ssFileSystem' = R.FileSystem
  /\ ssFSProtocol' = R.FSProtocol
  /\ ssTunnel' = R.Tunnel
  /\ ssDirectoryChangesCache' = R.DirectoryChangesCache
  /\ ssFilesDirectory' = R.FilesDirectory
  /\ ssCurrentDirectory' = R.CurrentDirectory
  /\ ssServerDirectory' = R.ServerDirectory
  /\ ssLastDirectoryChange' = R.LastDirectoryChange
  /\ ssData' = R.Data
  /\ ssExceptionOnFail' = R.ExceptionOnFail
  /\ ssAsked' = R.Asked
  /\ trInTransaction' = R.InTransaction
  /\ trReadCurrentDirectoryPending' = R.ReadCurrentDirectoryPending
  /\ trReadDirectoryPending' = R.ReadDirectoryPending
  /\ trAutoReadDirectory' = R.AutoReadDirectory
  /\ trSuspendTransaction' = R.SuspendTransaction
  /\ trActive' = GetActive(R)
  /\ ssLast' = [Op |-> Op, Moves |-> R.Moves, Calls |-> R.Calls,
                Teardowns |-> R.Teardowns, Raised |-> R.Raised # "none",
                Reopen |-> R.Reopen, AskedAtBound |-> R.AskedAtBound]
  /\ UNCHANGED <<ssConfiguration, trCommandSession, trLast>>

\* the terminal record becomes the state; Op names the operation
SessionStore(R, Op) ==
  /\ SessionFieldsStore(R, Op)
  /\ UNCHANGED ssOthers

NoSessionOp ==
  [Op |-> "none", Moves |-> {}, Calls |-> {}, Teardowns |-> {},
   Raised |-> FALSE, Reopen |-> FALSE, AskedAtBound |-> FALSE]

\* the descriptors and configurations of the sessions tried
SessionDatas ==
  {[Tunnel |-> TRUE, CacheDirectoryChanges |-> TRUE, FSProtocol |-> "fsFTP",
    RemoteDirectory |-> WorkDirectory, NumberOfRetries |-> 0],
   [Tunnel |-> FALSE, CacheDirectoryChanges |-> FALSE, FSProtocol |-> "fsSFTP",
    RemoteDirectory |-> "", NumberOfRetries |-> 0]}

\* the terminal after TTerminal::Init, for a configuration that allows up
\* to Retries automatic reopens
SessionInitWith(Retries) ==
  /\ ssStatus = "ssClosed"
  /\ ssFileSystem = "null"
  /\ ssFSProtocol = "cfsUnknown"
  /\ ssTunnel = NoTunnel
  /\ ssDirectoryChangesCache = "null"
  /\ ssFilesDirectory = ""
  /\ ssCurrentDirectory = ""
  /\ ssServerDirectory = ""
  /\ ssLastDirectoryChange = FALSE
  /\ ssData \in SessionDatas
  /\ ssConfiguration \in [SessionReopenAutoMaximumNumberOfRetries : 0..Retries]
  /\ ssExceptionOnFail = 0
  /\ ssAsked = 0
  /\ ssLast = NoSessionOp
  /\ trInTransaction = 0
  /\ trReadCurrentDirectoryPending = FALSE
  /\ trReadDirectoryPending = FALSE
  /\ trActive = FALSE
  /\ trAutoReadDirectory = TRUE
  /\ trSuspendTransaction = FALSE
  /\ trCommandSession = NoCommandSession
  /\ trLast = NoOp

\* the terminal after TTerminal::Init
SessionInit == SessionInitWith(MaxRetries)

\* TTerminal::Open
Open ==
  \E S \in {SessionTerminal} : \E R \in OpenResults(S) : SessionStore(R, "Open")

\* TTerminal::Close on an active session
CloseCall ==
  \E S \in {SessionTerminal} :
    GetActive(S) /\ \E R \in Close(S) : SessionStore(R, "Close")

\* TTerminal::Reopen
Reopen ==
  \E S \in {SessionTerminal}, Params \in ReopenParams :
    \E R \in ReopenResults(S, Params) : SessionStore(R, "Reopen")

\* a command of the open session fails fatally: TTerminal::FatalError
SessionFatal ==
  \E S \in {SessionTerminal} :
    GetActive(S) /\ \E R \in SessionFatalError(S, FALSE) : SessionStore(R, "FatalError")

\* the backend asks whether to reconnect after the fatal error of its command
QueryReopen ==
  /\ ssLast.Op = "FatalError"
  /\ \E S \in {SessionTerminal}, Params \in ReopenParams :
       \E R \in QueryReopenResults(S, Params) : SessionStore(R, "QueryReopen")

\* TTerminal::BeginTransaction around a group of commands
SessionBegin ==
  /\ trInTransaction < MaxSessionNesting
  /\ \E S \in {SessionTerminal} : SessionStore(SessionBeginTransaction(S), "BeginTransaction")

\* TTerminal::EndTransaction
SessionEnd ==
  /\ \E S \in {SessionTerminal} :
       \E R \in SessionEndTransaction(S) : SessionStore(R, "EndTransaction")

\* TTerminal::ChangeDirectory on the opened session
SessionChange ==
  \E S \in {SessionTerminal} :
    /\ GetActive(S) /\ ssStatus = "ssOpened"
    /\ \E R \in SessionChangeDirectory(S) : SessionStore(R, "ChangeDirectory")

\* TTerminal::SetExceptionOnFail
SetExceptionOnFail ==
  \E S \in {SessionTerminal}, value \in BOOLEAN :
    /\ value => ssExceptionOnFail < MaxExceptionOnFail
    /\ \E R \in {SessionSetExceptionOnFail(S, value)} :
         SessionStore(R, "SetExceptionOnFail")

-----------------------------------------------------------------------------
(* Session lifecycle: properties *)

\* the changes of FStatus the last operation made
StatusChanges == { m \in ssLast.Moves : m[1] # m[2] }

\* C14: over any sequence of Open, Reopen, Close and fatal errors the status
\* only moves along closed -> opening -> opened -> closing -> closed
C14_Original ==
  StatusChanges \subseteq {<<"ssClosed", "ssOpening">>, <<"ssOpening", "ssOpened">>,
                           <<"ssOpened", "ssClosing">>, <<"ssClosing", "ssClosed">>}

\* C15: between Terminal operations the backend is non-null if and only if
\* the status is opened or closing
C15_Original == (ssFileSystem # "null") <=> (ssStatus \in {"ssOpened", "ssClosing"})

\* C15: between Terminal operations the backend is non-null whenever the
\* status is opened or closing; a closed or opening terminal may keep a
\* backend bound
C15_BackendWhenOpened == (ssStatus \in {"ssOpened", "ssClosing"}) => (ssFileSystem # "null")

\* a closed terminal that keeps its backend, and an opened one
C15_Witness ==
  /\ ssLast.Op = "Open" /\ ssStatus = "ssOpened" /\ ssFileSystem = "active"
  /\ <<"ssOpening", "ssClosed">> \in ssLast.Moves

\* C16: Open on an opened Terminal performs no backend open, no tunnel
\* bring-up and no startup conversation, and leaves the status, the change
\* cache and the current-directory listing unchanged
C16_Original ==
  [][(ssStatus = "ssOpened" /\ ssLast'.Op = "Open")
       => /\ ssLast'.Calls \cap {"FileSystemOpen", "OpenTunnel", "DoStartup"} = {}
          /\ UNCHANGED <<ssStatus, ssDirectoryChangesCache, ssFilesDirectory>>]_vars

\* C17: after Reopen has returned or raised, the descriptor's remote
\* directory and fs-protocol, the auto-read-directory flag, both pending
\* flags and the exception-on-fail counter are what they were at its entry,
\* and the suspend-transaction flag is false
C17_ReopenRestores ==
  [][(ssLast'.Op = "Reopen")
       => /\ ssData'.RemoteDirectory = ssData.RemoteDirectory
          /\ ssData'.FSProtocol = ssData.FSProtocol
          /\ trAutoReadDirectory' = trAutoReadDirectory
          /\ trReadCurrentDirectoryPending' = trReadCurrentDirectoryPending
          /\ trReadDirectoryPending' = trReadDirectoryPending
          /\ ssExceptionOnFail' = ssExceptionOnFail
          /\ ~trSuspendTransaction']_vars

\* Reopen raised, entered with the counter raised, a reread pending, a
\* current directory other than the descriptor's and the protocol undecided
C17_Witness ==
  /\ ssLast.Op = "Reopen" /\ ssLast.Raised
  /\ ssExceptionOnFail = 1 /\ trReadCurrentDirectoryPending
  /\ ssData.FSProtocol = "fsSFTP" /\ ssData.RemoteDirectory = ""
  /\ ssCurrentDirectory # ""

\* C18: the retry counter never exceeds
\* SessionReopenAutoMaximumNumberOfRetries and the user is asked at most that
\* many times between two successful opens; with the counter at the bound
\* DoQueryReopen prompts nobody and answers no; the counter returns to 0 only
\* in a successful open
C18_RetriesBounded ==
  [][/\ ssData'.NumberOfRetries <= ssConfiguration.SessionReopenAutoMaximumNumberOfRetries
     /\ ssAsked' <= ssConfiguration.SessionReopenAutoMaximumNumberOfRetries
     /\ ~ssLast'.AskedAtBound
     /\ (ssData.NumberOfRetries > 0 /\ ssData'.NumberOfRetries = 0)
          => (ssStatus' = "ssOpened" /\ <<"ssOpening", "ssOpened">> \in ssLast'.Moves)
     /\ (ssData.NumberOfRetries >= ssConfiguration.SessionReopenAutoMaximumNumberOfRetries
         /\ ssLast'.Op = "QueryReopen")
          => (ssLast'.Calls = {} /\ ~ssLast'.Reopen)]_vars

\* the counter is at a bound that is not 0, and the user said Abort
C18_Witness ==
  /\ ssData.NumberOfRetries = ssConfiguration.SessionReopenAutoMaximumNumberOfRetries
  /\ ssData.NumberOfRetries > 0 /\ ssAsked = ssData.NumberOfRetries
  /\ ssLast.Raised /\ "QueryReopen" \in ssLast.Calls

\* the order of the steps of a teardown of the tunnel
TeardownOrder ==
  <<"TerminateThread", "GetLastTunnelError", "DestroyTunnel", "DestroyTunnelUI", "DestroyTunnelLog", "DestroyTunnelData", "ResetPort">>

\* C19: every teardown of the tunnel stops the driver thread first, captures
\* the last tunnel error, destroys shell, tunnel UI, tunnel log and
\* sub-descriptor in that order and resets the port; the shell is never
\* destroyed while the driver thread runs
C19_Original ==
  /\ \A T \in ssLast.Teardowns : T = TeardownOrder \/ T = Tail(TeardownOrder)
  /\ ~(ssTunnel.Thread /\ ~ssTunnel.Shell)

-----------------------------------------------------------------------------
(* Directory cache: the operations that change remote files *)
dcOthers == <<syVars, rtVars, dlVars, cfVars, trVars, ssVars, cdVars, tuVars, scVars, pfVars, cgVars, sfVars, ttVars, opVars, roVars>>

\* the directories of the session and the names the operations are called
\* with: a bare name stands for a file of the current directory
RootPath == <<"/">>
SubPath == WorkPath \o <<"sub">>
CacheDirectories == {RootPath, WorkPath, SubPath, TrashPath}
CacheNames == {<<"f">>, <<"sub">>, WorkPath \o <<"f">>, WorkPath \o <<"sub">>, TrashPath \o <<"f">>}

\* a TRemoteFile handle of the file the name stands for, or NULL
NoFile == [Present |-> FALSE, IsDirectory |-> FALSE]
FileHandles(FileName) ==
  {NoFile, [Present |-> TRUE, IsDirectory |-> UnixExtractFileName(FileName) = "sub"]}

\* the directory a file name lies in
ParentOf(Session, FileName) ==
  IF UnixExtractFilePath(FileName) = EmptyPath
  THEN Session.CurrentDirectory ELSE UnixExtractFilePath(FileName)

\* TRemoteDirectoryCache::ClearFileList through TTerminal::ClearCachedFileList:
\* the listing of Path goes, with SubDirs those of the directories below it too
ClearCachedFileList(Cache, Path, SubDirs) ==
  { D \in Cache : ~(D = Path \/ (SubDirs /\ Len(Path) < Len(D) /\ SubSeq(D, 1, Len(Path)) = Path)) }

\* TTerminal::DirectoryModified
DirectoryModified(Cache, Session, Path, SubDirs) ==
  ClearCachedFileList(Cache, IF Path = EmptyPath THEN Session.CurrentDirectory ELSE Path, SubDirs)

\* TTerminal::FileModified on the directory cache; the listing a handle
\* belongs to is the one of the directory its file lies in
FileModified(Cache, Session, File, FileName) ==
  IF ~Session.CacheDirectories \/ (~File.Present /\ FileName = EmptyPath)
  THEN Cache
  ELSE IF File.Present /\ File.IsDirectory
  THEN ClearCachedFileList(ClearCachedFileList(Cache, ParentOf(Session, FileName) \o <<UnixExtractFileName(FileName)>>, TRUE), ParentOf(Session, FileName), FALSE)
  ELSE ClearCachedFileList(Cache, ParentOf(Session, FileName), FALSE)

\* TTerminal::ReadDirectory from the server: the listing of the current
\* directory is loaded and, with the cache on, stored
ReloadDirectory(Cache, Session) ==
  IF Session.CacheDirectories THEN Cache \cup {Session.CurrentDirectory} ELSE Cache

\* TTerminal::ReactOnCommand for a command that modifies files, outside a
\* transaction: does it read the current directory again
ReloadsAfterOp(Session) == Session.AutoReadDirectory /\ Session.AutoReadDirectoryAfterOp

\* the cache after the operation's invalidation became the state, with the
\* ReactOnCommand that ends every operation
CacheStore(Cache, Op, FileName, File) ==
  /\ dcCache' = IF ReloadsAfterOp(dcSession) THEN ReloadDirectory(Cache, dcSession) ELSE Cache
  /\ dcLast' = [Op |-> Op, FileName |-> FileName, File |-> File,
                Reloaded |-> IF ReloadsAfterOp(dcSession) THEN {dcSession.CurrentDirectory} ELSE {}]
  /\ UNCHANGED dcSession
  /\ UNCHANGED dcOthers

NoCacheOp == [Op |-> "none", FileName |-> EmptyPath, File |-> NoFile, Reloaded |-> {}]

\* an opened session in its work directory, nothing listed yet; the
\* recycle bin is not configured and no transaction is open
CacheInit ==
  /\ dcCache = {}
  /\ dcSession \in [CacheDirectories : BOOLEAN, AutoReadDirectory : BOOLEAN,
                    AutoReadDirectoryAfterOp : BOOLEAN, CurrentDirectory : {WorkPath}]
  /\ dcLast = NoCacheOp

\* TTerminal::ReadDirectory(false): the user lists the current directory
CacheReadDirectory ==
  /\ dcCache' = ReloadDirectory(dcCache, dcSession)
  /\ dcLast' = [NoCacheOp EXCEPT !.Op = "ReadDirectory",
                                 !.Reloaded = {dcSession.CurrentDirectory} \ dcCache]
  /\ UNCHANGED dcSession
  /\ UNCHANGED dcOthers

\* TTerminal::ChangeDirectory with the rereads of ReactOnCommand
CacheChangeDirectory ==
  \E Directory \in CacheDirectories \ {dcSession.CurrentDirectory} :
    \E Session \in {[dcSession EXCEPT !.CurrentDirectory = Directory]} :
      /\ dcSession' = Session
      /\ dcCache' = IF Session.AutoReadDirectory THEN ReloadDirectory(dcCache, Session) ELSE dcCache
      /\ dcLast' = [NoCacheOp EXCEPT !.Op = "ChangeDirectory",
                                     !.Reloaded = IF Session.AutoReadDirectory THEN {Directory} \ dcCache ELSE {}]
      /\ UNCHANGED dcOthers

\* TTerminal::DeleteFile
CacheDeleteFile ==
  \E FileName \in CacheNames : \E File \in FileHandles(FileName) :
    CacheStore(IF File.Present THEN FileModified(dcCache, dcSession, File, FileName) ELSE dcCache,
               "DeleteFile", FileName, File)

\* TTerminal::RenameFile(FileName, NewName)
CacheRenameFileName ==
  \E FileName \in CacheNames : CacheStore(dcCache, "RenameFile", FileName, NoFile)

\* TTerminal::RenameFile(File, NewName, CheckExistence) for a file of the
\* current listing, the user agreeing to overwrite
CacheRenameFile ==
  \E FileName \in {N \in CacheNames : Len(N) = 1} :
    \E File \in FileHandles(FileName) \ {NoFile} :
      CacheStore(FileModified(dcCache, dcSession, File, FileName), "RenameFile", FileName, File)

\* TTerminal::MoveFile
CacheMoveFile ==
  \E FileName \in CacheNames : \E File \in FileHandles(FileName) :
    CacheStore(FileModified(dcCache, dcSession, File, FileName), "MoveFile", FileName, File)

\* TTerminal::CopyFile
CacheCopyFile ==
  \E FileName \in CacheNames : \E File \in FileHandles(FileName) :
    CacheStore(dcCache, "CopyFile", FileName, File)

\* TTerminal::CreateDirectory
CacheCreateDirectory ==
  \E FileName \in CacheNames :
    CacheStore(FileModified(dcCache, dcSession, NoFile, FileName), "CreateDirectory", FileName, NoFile)

\* TTerminal::CreateLink
CacheCreateLink ==
  \E FileName \in CacheNames :
    CacheStore(IF dcSession.CacheDirectories
               THEN DirectoryModified(dcCache, dcSession, dcSession.CurrentDirectory, FALSE)
               ELSE dcCache,
               "CreateLink", FileName, NoFile)

\* TTerminal::ChangeFileProperties
CacheChangeFileProperties ==
  \E FileName \in CacheNames : \E File \in FileHandles(FileName) :
    CacheStore(FileModified(dcCache, dcSession, File, FileName), "ChangeFileProperties", FileName, File)

-----------------------------------------------------------------------------
(* Directory cache: properties *)

\* the operations that change remote files
MutatingOps ==
  {"DeleteFile", "RenameFile", "MoveFile", "CopyFile", "CreateDirectory", "CreateLink", "ChangeFileProperties"}

\* C13: with directory caching on, after a mutating operation on a path,
\* called with or without a file handle, the cache holds no listing of the
\* path's parent directory from before the operation: the listing is absent
\* or was read again after the operation
C13_Original ==
  (dcSession.CacheDirectories /\ dcLast.Op \in MutatingOps)
    => (ParentOf(dcSession, dcLast.FileName) \in dcCache
          => ParentOf(dcSession, dcLast.FileName) \in dcLast.Reloaded)
-----------------------------------------------------------------------------
(* Tunnel UI: the callbacks of the tunnel's secure shell *)
tuOthers == <<syVars, rtVars, dlVars, cfVars, trVars, ssVars, dcVars, cdVars, scVars, pfVars, cgVars, sfVars, ttVars, opVars, roVars>>

\* the terminal's thread, the tunnel's driver thread, any other thread
Threads == {"terminal", "tunnel", "other"}
\* the answers a query can offer
TunnelAnswers == {"qaAbort", "qaCancel", "qaNo", "qaOK", "qaRetry"}
TunnelAnswerSets == (SUBSET TunnelAnswers) \ {{}}
\* TPromptKind: the authentication prompts and one that is not
TunnelPromptKinds == {"pkPassword", "pkKeybInteractive", "pkFileName"}
IsAuthenticationPrompt(Kind) == Kind \in {"pkPassword", "pkKeybInteractive"}
TunnelInstructions == {<< >>, <<"server">>}

\* AbortAnswer(Answers): the answer that gives the query up
AbortAnswer(Answers) ==
  IF "qaAbort" \in Answers THEN "qaAbort"
  ELSE IF "qaCancel" \in Answers THEN "qaCancel"
  ELSE IF "qaNo" \in Answers THEN "qaNo"
  ELSE IF "qaOK" \in Answers THEN "qaOK"
  ELSE "qaCancel"

NoCallback ==
  [Callback |-> "none", Thread |-> "terminal", Answers |-> {}, Result |-> "none",
   Calls |-> {}, Instructions |-> << >>, Raised |-> "none"]

\* TTunnelUI::TTunnelUI: the shim remembers the thread that builds it
TunnelUIInit ==
  /\ tuTerminalThread \in Threads
  /\ tuLast = NoCallback

\* GetCurrentThreadId() == FTerminalThread
OnTerminalThreadMutant(Thread) == TRUE
OnTerminalThread(Thread) == Thread = tuTerminalThread

\* the callback has returned
TunnelStore(Callback, Thread, Fields) ==
  /\ tuLast' = [Callback |-> Callback, Thread |-> Thread, Answers |-> Fields.Answers,
                Result |-> Fields.Result, Calls |-> Fields.Calls,
                Instructions |-> Fields.Instructions, Raised |-> Fields.Raised]
  /\ UNCHANGED tuTerminalThread
  /\ UNCHANGED tuOthers

\* a callback that returns nothing: forwarded on the terminal's thread
TunnelForward(Callback, Thread) ==
  TunnelStore(Callback, Thread,
    [NoCallback EXCEPT !.Calls = IF OnTerminalThread(Thread) THEN {Callback} ELSE {}])

\* TTunnelUI::Information
TunnelInformation == \E Thread \in Threads : TunnelForward("Information", Thread)

\* TTunnelUI::DisplayBanner
TunnelDisplayBanner == \E Thread \in Threads : TunnelForward("DisplayBanner", Thread)

\* TTunnelUI::HandleExtendedException
TunnelHandleExtendedException ==
  \E Thread \in Threads : TunnelForward("HandleExtendedException", Thread)

\* a query: the terminal's answer on its thread, the abort answer elsewhere
TunnelQuery(Callback, Thread, Answers, Reply) ==
  TunnelStore(Callback, Thread,
    IF OnTerminalThread(Thread)
    THEN [NoCallback EXCEPT !.Answers = Answers, !.Result = Reply, !.Calls = {Callback}]
    ELSE [NoCallback EXCEPT !.Answers = Answers, !.Result = AbortAnswer(Answers)])

\* TTunnelUI::QueryUser
TunnelQueryUser ==
  \E Thread \in Threads, Answers \in TunnelAnswerSets : \E Reply \in Answers :
    TunnelQuery("QueryUser", Thread, Answers, Reply)

\* TTunnelUI::QueryUserException
TunnelQueryUserException ==
  \E Thread \in Threads, Answers \in TunnelAnswerSets : \E Reply \in Answers :
    TunnelQuery("QueryUserException", Thread, Answers, Reply)

\* TTunnelUI::PromptUser: an authentication prompt is forwarded with the
\* tunnel's instruction put before its own
TunnelPromptUser ==
  \E Thread \in Threads, Kind \in TunnelPromptKinds, Instructions \in TunnelInstructions, Reply \in BOOLEAN :
    TunnelStore("PromptUser", Thread,
      IF OnTerminalThread(Thread)
      THEN [NoCallback EXCEPT !.Result = Reply, !.Calls = {"PromptUser"},
              !.Instructions = IF IsAuthenticationPrompt(Kind)
                               THEN <<"TUNNEL_INSTRUCTION">> \o Instructions ELSE Instructions]
      ELSE [NoCallback EXCEPT !.Result = FALSE])

\* TTunnelUI::FatalError: throws ESshFatal on any thread
TunnelFatalError ==
  \E Thread \in Threads :
    TunnelStore("FatalError", Thread, [NoCallback EXCEPT !.Raised = "ESshFatal"])

\* TTunnelUI::Closed
TunnelClosed == \E Thread \in Threads : TunnelStore("Closed", Thread, NoCallback)

-----------------------------------------------------------------------------
(* Tunnel UI: properties *)

\* the callbacks that forward to the terminal
ForwardingCallbacks ==
  {"QueryUser", "QueryUserException", "PromptUser", "Information", "DisplayBanner", "HandleExtendedException"}

\* C12: a tunnel UI callback invoked on a thread other than the one that
\* created the tunnel UI calls nothing of the owning terminal; QueryUser and
\* QueryUserException return the abort answer of the offered answers and
\* PromptUser returns false
C12_OffThreadCallbacks ==
  (tuLast.Callback \in ForwardingCallbacks /\ tuLast.Thread # tuTerminalThread)
    => /\ tuLast.Calls = {}
       /\ tuLast.Callback \in {"QueryUser", "QueryUserException"}
            => tuLast.Result = AbortAnswer(tuLast.Answers)
       /\ tuLast.Callback = "PromptUser" => tuLast.Result = FALSE

\* a query offering the abort answer among others arrived on another thread
C12_Witness ==
  /\ tuLast.Callback = "QueryUser" /\ tuLast.Thread # tuTerminalThread
  /\ tuLast.Answers = {"qaAbort", "qaRetry"} /\ tuLast.Result = "qaAbort"
-----------------------------------------------------------------------------
(* Secondary terminal: the password of the main session *)
scOthers == <<syVars, rtVars, dlVars, cfVars, trVars, ssVars, dcVars, cdVars, tuVars, pfVars, cgVars, sfVars, ttVars, opVars, roVars>>

MaxPrompts == 2         \* a prompt has 1..MaxPrompts lines
MaxReplays == 2         \* replays counted per kind up to MaxReplays

\* TPromptKind
SecondaryPromptKinds ==
  {"pkUserName", "pkPassword", "pkPassphrase", "pkKeybInteractive", "pkTIS", "pkCryptoCard"}
\* the kinds TSecondaryTerminal::DoPromptUser answers by itself
PasswordPromptKinds ==
  {"pkPassword", "pkPassphrase", "pkKeybInteractive", "pkTIS", "pkCryptoCard"}
\* the passwords the main terminal can hold; "" is none
MainPasswords == {"", "secret"}

\* which of the two flags and passwords a prompt is about
PasswordKind(TunnelOpening) == IF TunnelOpening THEN "tunnel" ELSE "main"

\* Prompts->Count == 1, Prompts->Objects[0] == NULL (no echo) and a password kind
IsPasswordPrompt(Kind, Count, Echo) ==
  Count = 1 /\ ~Echo /\ Kind \in PasswordPromptKinds

NoPrompt ==
  [Op |-> "none", Kind |-> "pkUserName", Count |-> 1, Echo |-> FALSE,
   PasswordKind |-> "main", Replayed |-> FALSE, Forwarded |-> FALSE,
   Result |-> FALSE, Reopened |-> FALSE]

\* TSecondaryTerminal::TSecondaryTerminal and Init
SecondaryInit ==
  /\ scTried = [main |-> FALSE, tunnel |-> FALSE]
  /\ scMain \in [main : MainPasswords, tunnel : MainPasswords]
  /\ scTunnelOpening = FALSE
  /\ scReplays = [main |-> 0, tunnel |-> 0]
  /\ scLast = NoPrompt

\* PasswordTried = true
LatchTriedMutant(Tried, Which) == Tried
LatchTried(Tried, Which) == [Tried EXCEPT ![Which] = TRUE]

\* TSecondaryTerminal::DoPromptUser; Reply is what TTerminal::DoPromptUser,
\* the prompt of the user, returns
SecondaryDoPromptUser ==
  \E Kind \in SecondaryPromptKinds, Count \in 1..MaxPrompts, Echo \in BOOLEAN, Reply \in BOOLEAN :
    \E Which \in {PasswordKind(scTunnelOpening)} :
      \E Tries \in {IsPasswordPrompt(Kind, Count, Echo) /\ ~scTried[Which]} :
        \E AResult \in {Tries /\ scMain[Which] # ""} :
          /\ scReplays[Which] < MaxReplays
          /\ scTried' = IF Tries THEN LatchTried(scTried, Which) ELSE scTried
          /\ scReplays' = IF AResult THEN [scReplays EXCEPT ![Which] = @ + 1] ELSE scReplays
          /\ scLast' = [Op |-> "DoPromptUser", Kind |-> Kind, Count |-> Count, Echo |-> Echo,
                        PasswordKind |-> Which, Replayed |-> AResult, Forwarded |-> ~AResult,
                        Result |-> IF AResult THEN TRUE ELSE Reply,
                        Reopened |-> scLast.Reopened]
          /\ UNCHANGED <<scMain, scTunnelOpening>>
          /\ UNCHANGED scOthers

\* TTerminal::OpenTunnel: FTunnelOpening = true around FTunnel->Open()
SecondaryTunnelOpening ==
  /\ ~scTunnelOpening
  /\ scTunnelOpening' = TRUE
  /\ scLast' = [NoPrompt EXCEPT !.Op = "OpenTunnel", !.Reopened = scLast.Reopened]
  /\ UNCHANGED <<scTried, scMain, scReplays>>
  /\ UNCHANGED scOthers

\* TTerminal::OpenTunnel: FTunnelOpening = false when FTunnel->Open() is left
SecondaryTunnelOpened ==
  /\ scTunnelOpening
  /\ scTunnelOpening' = FALSE
  /\ scLast' = [NoPrompt EXCEPT !.Op = "TunnelOpened", !.Reopened = scLast.Reopened]
  /\ UNCHANGED <<scTried, scMain, scReplays>>
  /\ UNCHANGED scOthers

\* TTerminal::Reopen of the secondary session: neither flag is touched
SecondaryReopen ==
  /\ ~scTunnelOpening
  /\ scLast' = [NoPrompt EXCEPT !.Op = "Reopen", !.Reopened = TRUE]
  /\ UNCHANGED <<scTried, scMain, scTunnelOpening, scReplays>>
  /\ UNCHANGED scOthers

-----------------------------------------------------------------------------
(* Secondary terminal: properties *)

\* C20: over the life of a secondary terminal DoPromptUser answers a
\* single-line prompt without echo of a password kind with the main
\* session's stored password at most once for the main password and at most
\* once for the tunnel password; once a kind was tried every later prompt of
\* that kind goes to the prompt of the user, after a reopen too
C20_ReplayOnce ==
  [][ /\ scReplays'.main <= 1 /\ scReplays'.tunnel <= 1
      /\ (scLast'.Op = "DoPromptUser" /\ scTried[scLast'.PasswordKind])
           => (scLast'.Forwarded /\ ~scLast'.Replayed)
      /\ \A k \in {"main", "tunnel"} : scTried[k] => scTried'[k] ]_vars

\* after a replay of the main password and a reopen, a password prompt was
\* forwarded to the user
C20_Witness ==
  /\ scLast.Op = "DoPromptUser" /\ scLast.Reopened /\ scLast.PasswordKind = "main"
  /\ IsPasswordPrompt(scLast.Kind, scLast.Count, scLast.Echo)
  /\ scReplays.main = 1 /\ scReplays.tunnel = 1 /\ scLast.Forwarded
-----------------------------------------------------------------------------
(* Directory changes: ChangeDirectory and the cache of directory changes *)
cdOthers == <<syVars, rtVars, dlVars, cfVars, trVars, ssVars, dcVars, tuVars, scVars, pfVars, cgVars, sfVars, ttVars, opVars, roVars>>

MaxChanges == 3         \* the cache of directory changes holds up to MaxChanges entries

\* the directories of the server; the session's home is the work directory,
\* where "link" is a symbolic link to the trash directory
ServerDirectories == {RootPath, WorkPath, SubPath, TrashPath}
\* what ChangeDirectory is called with: relative directives and absolute paths
ChangeRequests == {<<"..">>, <<"sub">>, <<"link">>, WorkPath, TrashPath}

\* the directory the server ends up in, as a set: empty when there is none
ServerResolve(From, Request) ==
  IF Request[1] = "/" THEN {Request} \cap ServerDirectories
  ELSE IF Request = <<"..">>
  THEN {IF Len(From) <= 2 THEN RootPath ELSE UnixExtractFilePath(From)}
  ELSE IF Request = <<"link">> THEN (IF From = WorkPath THEN {TrashPath} ELSE {})
  ELSE {From \o Request} \cap ServerDirectories

\* TTerminal::TranslateLockedPath(Path, true): the lock directory is cut off
\* the front of a path below it
TranslateLockedPath(Term, Path) ==
  IF ~Term.LockInHome \/ Path = EmptyPath \/ Path[1] # "/" THEN Path
  ELSE IF Len(Path) >= Len(Term.LockDirectory)
          /\ SubSeq(Path, 1, Len(Term.LockDirectory)) = Term.LockDirectory
  THEN RootPath \o SubSeq(Path, Len(Term.LockDirectory) + 1, Len(Path))
  ELSE Path

\* TRemoteDirectoryChangesCache::AddDirectoryChange: the change asked for in
\* SourceDir leads to TargetDir
AddDirectoryChange(Cache, SourceDir, Change, TargetDir) ==
  { e \in Cache : ~(e.SourceDir = SourceDir /\ e.Change = Change) }
    \cup {[SourceDir |-> SourceDir, Change |-> Change, TargetDir |-> TargetDir]}

\* TRemoteDirectoryChangesCache::GetDirectoryChange: the targets known for the
\* change asked for in SourceDir; none when the cache has no entry
GetDirectoryChange(Cache, SourceDir, Change) ==
  { e.TargetDir : e \in { c \in Cache : c.SourceDir = SourceDir /\ c.Change = Change } }

\* ClearDirectoryChange and ClearDirectoryChangeTarget of a directory
ClearDirectoryChange(Cache, Directory) ==
  { e \in Cache : e.SourceDir # Directory /\ e.TargetDir # Directory }

\* the backend: CachedChangeDirectory keeps the directory for the next
\* ReadCurrentDirectory, which then asks the server nothing
BackendCachedChangeDirectory(Backend, Directory) ==
  [Backend EXCEPT !.CachedDirectory = Directory, !.ServerDirectory = Directory,
                  !.Calls = Append(@, [Method |-> "CachedChangeDirectory", Directory |-> Directory])]

\* the backend: ChangeDirectory sends the change to the server
BackendChangeDirectory(Backend, Directory, Resolved) ==
  [Backend EXCEPT !.CachedDirectory = EmptyPath, !.ServerDirectory = Resolved,
                  !.Calls = Append(@, [Method |-> "ChangeDirectory", Directory |-> Directory]),
                  !.RoundTrips = @ \cup {"cd"}]

\* the backend: HomeDirectory
BackendHomeDirectory(Backend) ==
  [Backend EXCEPT !.CachedDirectory = EmptyPath, !.ServerDirectory = WorkPath,
                  !.Calls = Append(@, [Method |-> "HomeDirectory", Directory |-> EmptyPath]),
                  !.RoundTrips = @ \cup {"cd"}]

\* the backend: ReadCurrentDirectory
BackendReadCurrentDirectory(Backend) ==
  IF Backend.CachedDirectory # EmptyPath
  THEN [Backend EXCEPT !.CurrentDirectory = Backend.CachedDirectory, !.CachedDirectory = EmptyPath,
                       !.Calls = Append(@, [Method |-> "ReadCurrentDirectory", Directory |-> EmptyPath])]
  ELSE [Backend EXCEPT !.CurrentDirectory = Backend.ServerDirectory,
                       !.Calls = Append(@, [Method |-> "ReadCurrentDirectory", Directory |-> EmptyPath]),
                       !.RoundTrips = @ \cup {"pwd"}]

\* TTerminal::ReadCurrentDirectory once the backend has read: the change is
\* recorded, FLastDirectoryChange reset, the lock directory set on first use
CurrentDirectoryRead(Term, Cache, OldDirectory, Backend) ==
  [Backend |-> Backend,
   Term |-> [Term EXCEPT
      !.CurrentDirectory = Backend.CurrentDirectory,
      !.LastDirectoryChange = IF Term.CacheDirectoryChanges THEN EmptyPath ELSE @,
      !.LockDirectory = IF OldDirectory # EmptyPath THEN @
                        ELSE IF Term.LockInHome THEN Backend.CurrentDirectory ELSE EmptyPath],
   Cache |-> IF /\ Term.CacheDirectoryChanges
                /\ TranslateLockedPath(Term, Backend.CurrentDirectory) # EmptyPath
                /\ Term.LastDirectoryChange # EmptyPath
                /\ TranslateLockedPath(Term, Backend.CurrentDirectory) # OldDirectory
             THEN AddDirectoryChange(Cache, OldDirectory, Term.LastDirectoryChange,
                                     TranslateLockedPath(Term, Backend.CurrentDirectory))
             ELSE Cache]

\* TTerminal::ReadCurrentDirectory
ChangeReadCurrentDirectory(Term, Cache, Backend) ==
  CHOOSE R \in { CurrentDirectoryRead(Term, Cache, Backend.CurrentDirectory, B1) :
                   B1 \in {BackendReadCurrentDirectory(Backend)} } : TRUE

\* TTerminal::ReadDirectory(false) of ReactOnCommand with GetAutoReadDirectory():
\* the listing comes from the server unless the directory cache has it
ChangeAutoReadDirectory(Term, Backend, FromServer) ==
  IF Term.AutoReadDirectory /\ FromServer
  THEN [Backend EXCEPT !.RoundTrips = @ \cup {"ls"}] ELSE Backend

\* the backend as a call of the terminal finds it
BackendAtCall == [cdBackend EXCEPT !.Calls = << >>, !.RoundTrips = {}]

\* the operation is over
ChangeStore(R, Op, Directory, FromServer) ==
  /\ Cardinality(R.Cache) <= MaxChanges
  /\ cdBackend' = ChangeAutoReadDirectory(R.Term, R.Backend, FromServer)
  /\ cdTerminal' = R.Term
  /\ cdChangesCache' = R.Cache
  /\ cdLast' = [Op |-> Op, Directory |-> Directory, From |-> cdBackend.CurrentDirectory]
  /\ UNCHANGED cdOthers

NoChange == [Op |-> "none", Directory |-> EmptyPath, From |-> EmptyPath]

\* a session in its home directory after DoStartup has read the current
\* directory, before or after Open sets ssOpened
ChangeInit ==
  /\ cdBackend = [CurrentDirectory |-> WorkPath, ServerDirectory |-> WorkPath,
                  CachedDirectory |-> EmptyPath, Calls |-> << >>, RoundTrips |-> {}]
  /\ cdChangesCache = {}
  /\ \E T \in [LockInHome : BOOLEAN, CacheDirectoryChanges : BOOLEAN, AutoReadDirectory : BOOLEAN,
               Status : {"ssOpening", "ssOpened"}] :
       cdTerminal = [LockInHome |-> T.LockInHome, CacheDirectoryChanges |-> T.CacheDirectoryChanges,
                     AutoReadDirectory |-> T.AutoReadDirectory, Status |-> T.Status,
                     LockDirectory |-> IF T.LockInHome THEN WorkPath ELSE EmptyPath,
                     CurrentDirectory |-> WorkPath, LastDirectoryChange |-> EmptyPath]
  /\ cdLast = NoChange

\* TTerminal::ChangeDirectory: the directories the cache knows for the
\* request, looked up under PeekCurrentDirectory()
CachedDirectories(Term, Cache, Backend, Directory) ==
  IF Term.Status = "ssOpened" /\ Term.CacheDirectoryChanges
  THEN GetDirectoryChange(Cache, TranslateLockedPath(Term, Backend.CurrentDirectory), Directory)
  ELSE {}

\* TTerminal::ChangeDirectory: the backends its call of the backend can leave
DirectoryChanged(Backend, Directory, Cached) ==
  IF Cached # {}
  THEN { BackendCachedChangeDirectory(Backend, D) : D \in Cached }
  ELSE { BackendChangeDirectory(Backend, Directory, D) : D \in ServerResolve(Backend.ServerDirectory, Directory) }

\* TTerminal::ChangeDirectory with ReactOnCommand(fsChangeDirectory), outside
\* a transaction, for a directory the server has
ChangeDirectory ==
  \E Directory \in ChangeRequests, FromServer \in BOOLEAN :
    \E Cached \in {CachedDirectories(cdTerminal, cdChangesCache, cdBackend, Directory)} :
      \E B1 \in DirectoryChanged(BackendAtCall, Directory, Cached) :
        \E T1 \in {[cdTerminal EXCEPT !.LastDirectoryChange = Directory,
                                      !.CurrentDirectory = cdBackend.CurrentDirectory]} :
          \E R \in {ChangeReadCurrentDirectory(T1, cdChangesCache, B1)} :
            ChangeStore(R, "ChangeDirectory", Directory, FromServer)

\* TTerminal::HomeDirectory with ReactOnCommand(fsHomeDirectory)
ChangeHomeDirectory ==
  \E FromServer \in BOOLEAN :
    \E B1 \in {BackendHomeDirectory(BackendAtCall)} :
      \E R \in {ChangeReadCurrentDirectory(cdTerminal, cdChangesCache, B1)} :
        ChangeStore(R, "HomeDirectory", EmptyPath, FromServer)

\* TTerminal::FileModified of a directory with ClearDirectoryChange set
ChangeFileModified ==
  \E Directory \in ServerDirectories :
    /\ cdTerminal.CacheDirectoryChanges
    /\ cdChangesCache' = ClearDirectoryChange(cdChangesCache, Directory)
    /\ cdLast' = [NoChange EXCEPT !.Op = "FileModified", !.Directory = Directory]
    /\ cdBackend' = BackendAtCall
    /\ UNCHANGED cdTerminal
    /\ UNCHANGED cdOthers

\* TTerminal::Open: FStatus = ssOpened once DoStartup is through
ChangeOpened ==
  /\ cdTerminal.Status = "ssOpening"
  /\ cdTerminal' = [cdTerminal EXCEPT !.Status = "ssOpened"]
  /\ cdLast' = [NoChange EXCEPT !.Op = "Open"]
  /\ cdBackend' = BackendAtCall
  /\ UNCHANGED cdChangesCache
  /\ UNCHANGED cdOthers

-----------------------------------------------------------------------------
(* Directory changes: properties *)

\* the entries recorded for the request in the directory the backend is in
RecordedChanges(Directory) ==
  { e \in cdChangesCache : e.SourceDir = cdBackend.CurrentDirectory /\ e.Change = Directory }

\* C11: after ChangeDirectory(request) from directory A resolved to B and was
\* recorded in the cache of directory changes, a later ChangeDirectory(request)
\* from A on an opened session, the entry still cached, calls the backend's
\* CachedChangeDirectory with B, does not call the backend's ChangeDirectory
\* and sends the server nothing to read the current directory
C11_Original ==
  [][ \A Directory \in ChangeRequests :
        (/\ cdLast'.Op = "ChangeDirectory" /\ cdLast'.Directory = Directory
         /\ cdTerminal.Status = "ssOpened"
         /\ RecordedChanges(Directory) # {})
          => /\ \E e \in RecordedChanges(Directory) :
                  cdBackend'.Calls[1] = [Method |-> "CachedChangeDirectory", Directory |-> e.TargetDir]
             /\ \A i \in DOMAIN cdBackend'.Calls : cdBackend'.Calls[i].Method # "ChangeDirectory"
             /\ "pwd" \notin cdBackend'.RoundTrips ]_vars

-----------------------------------------------------------------------------
(* Transactions: the secondary session and the pending rereads *)

\* C21: whenever a secondary session exists, after every BeginTransaction or
\* EndTransaction of the main terminal, an EndTransaction whose reread raises
\* included, the secondary session's transaction counter equals the main
\* terminal's; the secondary never has a transaction open while the main
\* terminal has none
C21_Original ==
  (trCommandSession.Exists /\ trLast.Op \in {"BeginTransaction", "EndTransaction"})
    => /\ trCommandSession.InTransaction = trInTransaction
       /\ trInTransaction = 0 => trCommandSession.InTransaction = 0

\* C30 as stated: after the outermost EndTransaction, returned or raised,
\* both pending flags are false, whether the session was active or not
C30_Original ==
  (trLast.Op = "EndTransaction" /\ trLast.InTransaction = 1)
    => (~trReadCurrentDirectoryPending /\ ~trReadDirectoryPending)

\* C30: the outermost EndTransaction of an active session runs the pending
\* rereads and leaves both flags false, even if a reread raises; when the
\* session is no longer active it performs no reread and leaves the flags
\* as they were
C30_FlagsAfterEndTransaction ==
  [][ (trLast'.Op = "EndTransaction" /\ trInTransaction = 1)
        => IF trActive
           THEN /\ ~trReadCurrentDirectoryPending' /\ ~trReadDirectoryPending'
                /\ trReadCurrentDirectoryPending
                     => (trLast'.Calls # << >> /\ trLast'.Calls[1] = "ReadCurrentDirectory")
                /\ (trReadDirectoryPending /\ ~trReadCurrentDirectoryPending)
                     => trLast'.Calls = <<"ReadDirectory">>
           ELSE /\ trLast'.Calls = << >>
                /\ UNCHANGED <<trReadCurrentDirectoryPending, trReadDirectoryPending>> ]_vars

\* a reread raised in the outermost EndTransaction of an active session, and
\* the flags are clear
C30_Witness ==
  /\ trLast.Op = "EndTransaction" /\ trLast.InTransaction = 1 /\ trLast.Active
  /\ trLast.Raised /\ trLast.Calls = <<"ReadCurrentDirectory">>
  /\ ~trReadCurrentDirectoryPending /\ ~trReadDirectoryPending
-----------------------------------------------------------------------------
(* Retry handling with a session action: how the action ends *)

\* the action of the last operation written with COMMAND_ERROR_ARI_ACTION
LastAction == rtActions[rtLast.Action]
\* the last step handled a failure of such an operation
AriHandled == rtLast.Via = "CommandError" /\ rtLast.Action > 0

\* a Skip answer, or skip-to-all, has cancelled the action
SkipCancels == (AriHandled /\ rtLast.Outcome = "skip") => LastAction.State = "cancelled"

\* the step commits an action only if its backend call succeeded
CommitsOnSuccess ==
  \A i \in DOMAIN rtActions' :
    (rtActions'[i].State = "committed" /\ (i \notin DOMAIN rtActions \/ rtActions[i].State # "committed"))
      => (rtLast'.Action = i /\ rtLast'.E = "none")

\* the action holds the error E as rolled back
RolledBackWith(E) == LastAction.State = "rolledback" /\ LastAction.Error = E

\* C22 as stated: a Skip answer (or skip-to-all) cancels the current action;
\* an Abort answer, or an error raised while the failure is handled, rolls it
\* back with that error; an action is committed only when the backend call
\* succeeded
C22_Original ==
  [][ /\ SkipCancels'
      /\ (AriHandled' /\ rtLast'.Outcome = "abort") => RolledBackWith(rtLast.E)'
      /\ (AriHandled' /\ rtLast'.Outcome = "raised") => RolledBackWith(rtLast.Raised)'
      /\ CommitsOnSuccess ]_vars

\* the failure leaves no record: the backend cancelled the action before it
\* failed, or the error is a skip of the file
LeavesNoRecord(E) == rtLast.Cancelled \/ E = "EScpSkipFile"

\* the action ends as RollbackAction ends it for the error E
RolledBackOrCancelled(E) ==
  IF LeavesNoRecord(E) THEN LastAction.State = "cancelled" ELSE RolledBackWith(E)

\* C22: a Skip answer (or skip-to-all) cancels the current action; an Abort
\* answer, or an error raised while the failure is handled, rolls it back
\* with that error unless the backend had cancelled the action already or
\* the error is a skip of the file, and then the action ends cancelled; an
\* action is committed only when the backend call succeeded
C22_ActionFollowsAnswer ==
  [][ /\ SkipCancels'
      /\ (AriHandled' /\ rtLast'.Outcome = "abort") => RolledBackOrCancelled(rtLast.E)'
      /\ (AriHandled' /\ rtLast'.Outcome = "raised") => RolledBackOrCancelled(rtLast.Raised)'
      /\ CommitsOnSuccess ]_vars

\* the user answered Abort to an ordinary failure and the action holds it
C22_Witness ==
  /\ AriHandled /\ rtLast.Outcome = "abort" /\ rtLast.Prompted
  /\ rtLast.E = "Exception" /\ ~rtLast.Cancelled
  /\ LastAction.State = "rolledback" /\ LastAction.Error = "Exception"
-----------------------------------------------------------------------------
(* Session lifecycle: what Open leaves behind when it raises *)

\* C24: whenever Open raises after a failure of the tunnel, of the backend's
\* construction or open, of the creation of the change cache or of the
\* startup conversation, on exit no backend is bound, the tunnel is torn down
\* (no shell, no driver thread) and the change cache is null
C24_Original ==
  (ssLast.Op = "Open" /\ ssLast.Raised)
    => /\ ssFileSystem = "null"
       /\ ~ssTunnel.Shell /\ ~ssTunnel.Thread
       /\ ssDirectoryChangesCache = "null"
-----------------------------------------------------------------------------
(* Synchronization: properties of the collected items of one file *)

\* a file on both sides of the root pair whose remote time is strictly newer
\* than the local time reduced to the remote precision
RemoteNewer(name) ==
  /\ syLocal[RootDir][name].kind = "file"
  /\ syRemote[RootDir][name].kind = "file"
  /\ CompareFileTime(ReduceDateTimePrecision(syLocal[RootDir][name].time,
                                             syRemote[RootDir][name].fmt),
                     syRemote[RootDir][name].time) < 0

\* exactly one item stands for the file, a checked download-update
OneDownloadUpdate(name) ==
  /\ Cardinality(ItemsOf(RootDir, name)) = 1
  /\ \A i \in ItemsOf(RootDir, name) :
       /\ syChecklist[i].Action = "saDownloadUpdate"
       /\ syChecklist[i].Checked

\* C28 as stated: in mode=both with not-by-time clear a file on both sides
\* whose remote time is strictly newer than the reduced local time gets
\* exactly one item, a checked download-update.
C28_Original ==
  (syPc = "collected" /\ syMode = "smBoth" /\ FLAGCLEAR(syParams, "spNotByTime")) =>
    \A name \in RootNames : RemoteNewer(name) => OneDownloadUpdate(name)

\* the times of the two sides are compared: not-by-time is clear and, when
\* timestamp-only and by-size are both set, the sizes are equal
TimesCompared(name) ==
  /\ FLAGCLEAR(syParams, "spNotByTime")
  /\ \/ FLAGCLEAR(syParams, "spTimestamp")
     \/ FLAGCLEAR(syParams, "spBySize")
     \/ syLocal[RootDir][name].size = syRemote[RootDir][name].size

\* C28 amended: in mode=both a file on both sides whose remote time is
\* strictly newer than the reduced local time gets exactly one item, a
\* checked download-update, when its times are compared; when not-by-time is
\* clear and they are not compared (timestamp-only and by-size set, sizes
\* different) it gets no item.
C28_RemoteNewerDownloads ==
  (syPc = "collected" /\ syMode = "smBoth" /\ FLAGCLEAR(syParams, "spNotByTime")) =>
    \A name \in RootNames :
       RemoteNewer(name) =>
          IF TimesCompared(name) THEN OneDownloadUpdate(name)
          ELSE ItemsOf(RootDir, name) = {}

\* both cases of the amended claim in one collected checklist is not
\* possible (one name holds general files); the compared case with the
\* flags that skip the comparison for other sizes
C28_Witness ==
  /\ syPc = "collected" /\ syMode = "smBoth"
  /\ {"spTimestamp", "spBySize"} \subseteq syParams
  /\ FLAGCLEAR(syParams, "spNotByTime")
  /\ \E name \in RootNames :
       RemoteNewer(name) /\ TimesCompared(name) /\ OneDownloadUpdate(name)

\* the directory pair was walked: the root always, the sub-directory when
\* both sides have it and no-recurse is clear
Walked(dir) ==
  \/ dir = RootDir
  \/ /\ syLocal[RootDir][DirName].kind = "dir"
     /\ syRemote[RootDir][DirName].kind = "dir"
     /\ FLAGCLEAR(syParams, "spNoRecurse")

\* a local entry of a walked pair with no remote entry of its name
LocalOnly(dir, name) ==
  /\ Walked(dir)
  /\ syLocal[dir][name].kind # "none"
  /\ syRemote[dir][name].kind = "none"

\* exactly one item stands for the entry, with the action and checked flag
OneItem(dir, name, Action, Checked) ==
  /\ Cardinality(ItemsOf(dir, name)) = 1
  /\ \A i \in ItemsOf(dir, name) :
       /\ syChecklist[i].Action = Action
       /\ syChecklist[i].Checked = Checked
       /\ syChecklist[i].IsDirectory = (syLocal[dir][name].kind = "dir")

\* C29 as stated: a local entry without remote counterpart gets no item in
\* mode=local and an upload-new, checked unless existing-only is set, in
\* mode=remote and mode=both.
C29_Original ==
  syPc = "collected" =>
    \A dir \in Dirs, name \in AllNames :
       LocalOnly(dir, name) =>
          IF syMode = "smLocal" THEN ItemsOf(dir, name) = {}
          ELSE OneItem(dir, name, "saUploadNew",
                       FLAGCLEAR(syParams, "spExistingOnly"))

\* C29 amended: a local entry without remote counterpart gets no item when
\* timestamp-only is set; otherwise it gets one item: in mode=local a
\* delete-local checked iff delete is set, in mode=remote and mode=both an
\* upload-new checked unless existing-only is set; the item of a directory
\* is checked only if moreover no-recurse is clear or sub-dirs is set.
C29_LocalOnlyEntries ==
  syPc = "collected" =>
    \A dir \in Dirs, name \in AllNames :
       LocalOnly(dir, name) =>
          IF FLAGSET(syParams, "spTimestamp") THEN ItemsOf(dir, name) = {}
          ELSE IF syMode = "smLocal"
          THEN OneItem(dir, name, "saDeleteLocal",
                       /\ FLAGSET(syParams, "spDelete")
                       /\ DirectoryChecked(syLocal[dir][name].kind = "dir", syParams))
          ELSE OneItem(dir, name, "saUploadNew",
                       /\ FLAGCLEAR(syParams, "spExistingOnly")
                       /\ DirectoryChecked(syLocal[dir][name].kind = "dir", syParams))

\* a mode=local checklist with a checked delete-local for a local-only file
\* and an unchecked one for a local-only directory
C29_Witness ==
  /\ syPc = "collected" /\ syMode = "smLocal"
  /\ FLAGSET(syParams, "spDelete") /\ FLAGCLEAR(syParams, "spTimestamp")
  /\ \E n1, n2 \in RootNames :
       /\ LocalOnly(RootDir, n1) /\ LocalOnly(RootDir, n2)
       /\ syLocal[RootDir][n1].kind = "file" /\ syLocal[RootDir][n2].kind = "dir"
       /\ OneItem(RootDir, n1, "saDeleteLocal", TRUE)
       /\ OneItem(RootDir, n2, "saDeleteLocal", FALSE)

-----------------------------------------------------------------------------
(* Bulk operations: TTerminal::ProcessFiles over a list of files *)
pfOthers == <<syVars, rtVars, dlVars, cfVars, trVars, ssVars, dcVars, cdVars, tuVars, scVars, cgVars, sfVars, ttVars, opVars, roVars>>

MaxFiles == 3         \* a file list holds 1..MaxFiles files
MaxAttempts == 2      \* attempts of the per-file operation on one file

\* the per-file operations: DeleteFile handles a failure with
\* COMMAND_ERROR_ARI_ACTION and runs on the remote side; the local
\* timestamp operation runs its work in a FILE_OPERATION_LOOP on the local
\* side
ProcessFileEvents == {"DeleteFile", "SynchronizeLocalTimestamp"}
SideOf(ProcessFile) == IF ProcessFile = "DeleteFile" THEN "osRemote" ELSE "osLocal"

NoProcessFiles == [ProcessFile |-> "none", Side |-> "osLocal", Count |-> 0,
           ExceptionOnFail |-> FALSE, InTransaction |-> 0]
NoProcessFile == [File |-> 0, Via |-> "none", Outcome |-> "none", Attempts |-> 0,
           Escaped |-> "none", Result |-> FALSE, Raised |-> "none"]

\* TTerminal::HandleException answering for every session
HandleExceptionMutant(ExceptionOnFail) == TRUE

\* TTerminal::HandleException: the exception is logged and absorbed unless
\* the session raises on failure
HandleException(ExceptionOnFail) == ~ExceptionOnFail

PfIdle ==
  /\ pfPc = "idle" /\ pfCall = NoProcessFiles /\ pfIndex = 0
  /\ pfProgress = NoProgress /\ pfActive = TRUE
  /\ pfTransaction = [InTransaction |-> 0, ReadDirectoryPending |-> FALSE]
  /\ pfFinished = << >> /\ pfActions = << >> /\ pfLast = NoProcessFile

\* the session before a bulk operation: it may be inside a transaction of
\* the caller
PfInit ==
  /\ pfPc = "idle" /\ pfCall = NoProcessFiles /\ pfIndex = 0
  /\ pfProgress = NoProgress /\ pfActive = TRUE
  /\ \E n \in 0..1 :
       pfTransaction = [InTransaction |-> n, ReadDirectoryPending |-> FALSE]
  /\ pfFinished = << >> /\ pfActions = << >> /\ pfLast = NoProcessFile

\* the EndTransaction of ProcessFiles' finally block on the remote side:
\* the outermost one of an active session rereads the directory when a
\* reread is pending, and the reread may raise; Reread is what it does
ProcessFilesEndTransaction(Call, Transaction, Active, Reread) ==
  IF Call.Side # "osRemote"
  THEN [Transaction |-> Transaction, Raised |-> "none", Active |-> Active]
  ELSE LET n == Transaction.InTransaction - 1
       IN IF n = 0 /\ Active
          THEN [Transaction |-> [InTransaction |-> 0, ReadDirectoryPending |-> FALSE],
                Raised |-> IF Transaction.ReadDirectoryPending /\ Reread = "raised"
                           THEN "ESshFatal" ELSE "none",
                Active |-> ~(Transaction.ReadDirectoryPending /\ Reread = "raised")]
          ELSE [Transaction |-> [Transaction EXCEPT !.InTransaction = n],
                Raised |-> "none", Active |-> Active]

\* TTerminal::ProcessFiles up to its loop: the progress object and
\* BeginTransaction on the remote side
ProcessFilesStart ==
  /\ pfPc \in {"idle", "returned", "raised"}
  /\ pfActive
  /\ \E ProcessFile \in ProcessFileEvents, Count \in 1..MaxFiles,
        ExceptionOnFail \in BOOLEAN :
       /\ pfCall' = [ProcessFile |-> ProcessFile, Side |-> SideOf(ProcessFile),
                     Count |-> Count, ExceptionOnFail |-> ExceptionOnFail,
                     InTransaction |-> pfTransaction.InTransaction]
       /\ pfTransaction' =
            IF SideOf(ProcessFile) = "osRemote"
            THEN [InTransaction |-> pfTransaction.InTransaction + 1,
                  ReadDirectoryPending |->
                    pfTransaction.InTransaction > 0 /\ pfTransaction.ReadDirectoryPending]
            ELSE pfTransaction
  /\ pfPc' = "loop" /\ pfIndex' = 1
  /\ pfProgress' = NewProgress
  /\ pfFinished' = << >> /\ pfActions' = << >> /\ pfLast' = NoProcessFile
  /\ UNCHANGED pfActive
  /\ UNCHANGED pfOthers

\* what one attempt of the per-file operation on the current file ends
\* with: Success is the flag handed to Progress.Finish, Escaped the
\* exception that leaves the per-file operation, Action the final state of
\* the session action of the attempt ("none" when it has none)
DeleteFileAttempt(Progress, ExceptionOnFail, Outcome, Reply) ==
  LET A0 == IF Outcome.ActionCancelled THEN ActionCancel(PendingAction)
            ELSE PendingAction
      CE == CommandError(Outcome.E, AriAnswers, Progress, ExceptionOnFail, Reply)
      R == [Via |-> "CommandError", Outcome |-> "ok", Success |-> TRUE,
            Escaped |-> "none", SkipToAll |-> CE.SkipToAll,
            Cancel |-> Progress.Cancel, Modified |-> TRUE,
            Action |-> ActionDestroy(A0).State]
  IN IF Outcome.E = "none" THEN [R EXCEPT !.Via = "none", !.SkipToAll = Progress.SkipToAll]
     ELSE IF CE.Raised # "none"
     THEN [R EXCEPT !.Outcome = "raised", !.Success = FALSE, !.Modified = FALSE,
                    !.Escaped = CE.Raised,
                    !.Action = ActionDestroy(RollbackAction(A0, NoProgress, CE.Raised)).State]
     ELSE IF CE.Result = "qaRetry"
     THEN [R EXCEPT !.Outcome = "retry", !.Success = FALSE, !.Modified = FALSE,
                    !.Action = ActionDestroy(ActionCancel(A0)).State]
     ELSE IF CE.Result = "qaAbort"
     THEN [R EXCEPT !.Outcome = "abort", !.Success = FALSE, !.Modified = FALSE,
                    !.Escaped = "EAbort",
                    !.Action = ActionDestroy(RollbackAction(A0, NoProgress, Outcome.E)).State]
     ELSE [R EXCEPT !.Outcome = "skip",
                    !.Action = ActionDestroy(ActionCancel(A0)).State]

\* an operation written with FILE_OPERATION_LOOP: an ordinary exception is
\* put to FileOperationLoopQuery, every other one goes on
LoopAttempt(Progress, E, Reply) ==
  LET Q == FileOperationLoopQuery(Progress, TRUE, FALSE, Reply)
      R == [Via |-> "FileOperationLoopQuery", Outcome |-> "ok", Success |-> TRUE,
            Escaped |-> "none", SkipToAll |-> Progress.SkipToAll,
            Cancel |-> Progress.Cancel, Modified |-> FALSE, Action |-> "none"]
  IN IF E = "none" THEN [R EXCEPT !.Via = "none"]
     ELSE IF E # "Exception"
     THEN [R EXCEPT !.Via = "none", !.Outcome = "raised", !.Success = FALSE,
                    !.Escaped = E]
     ELSE IF Q.Raised = "none"
     THEN [R EXCEPT !.Outcome = "retry", !.Success = FALSE,
                    !.SkipToAll = Q.SkipToAll]
     ELSE [R EXCEPT !.Outcome = IF Q.Answer = "qaSkip" THEN "skip"
                                ELSE IF Q.Answer = "qaAbort" THEN "abort"
                                ELSE "raised",
                    !.Success = FALSE, !.Escaped = Q.Raised,
                    !.SkipToAll = Q.SkipToAll, !.Cancel = Q.Cancel]


\* the loop condition of ProcessFiles with the cancel status left out
ProcessFilesLoopMutant(Index, Count, Progress) == Index <= Count

\* the condition of the while loop of ProcessFiles: files are left and the
\* progress object has not been cancelled
ProcessFilesLoop(Index, Count, Progress) ==
  Index <= Count /\ Progress.Cancel = "csContinue"

\* the value ProcessFiles returns once its loop and the finally block of
\* the loop are done
ProcessFilesResult(Progress) == Progress.Cancel = "csContinue"

\* one round of the loop of ProcessFiles: one attempt of the per-file
\* operation, Progress.Finish in the finally block once the operation is
\* left, the handler of the skip-file error, and, when an exception goes
\* on, the finally blocks of ProcessFiles; a Retry answer leaves the
\* repeated attempt, made from within the operation, as the next step
ProcessFile ==
  /\ pfPc = "loop"
  /\ ProcessFilesLoop(pfIndex, pfCall.Count, pfProgress)
  /\ \E Outcome \in BackendOutcomes, Reply \in Replies, Reread \in {"ok", "raised"} :
       \E A \in {IF pfCall.ProcessFile = "DeleteFile"
                 THEN DeleteFileAttempt(pfProgress, pfCall.ExceptionOnFail, Outcome, Reply)
                 ELSE LoopAttempt(pfProgress, Outcome.E, Reply)} :
       \E Absorbed \in {A.Escaped = "EScpSkipFile" /\ HandleException(pfCall.ExceptionOnFail)} :
       \E Leaves \in {A.Escaped # "none" /\ ~Absorbed} :
       \E Active1 \in {pfActive /\ A.Escaped # "ESshFatal"} :
       \E T1 \in {IF A.Modified /\ pfTransaction.InTransaction > 0
                  THEN [pfTransaction EXCEPT !.ReadDirectoryPending = TRUE]
                  ELSE pfTransaction} :
       \E End \in {ProcessFilesEndTransaction(pfCall, T1, Active1, Reread)} :
          /\ IF pfCall.ProcessFile = "DeleteFile"
             THEN /\ CommandErrorReply(AriAnswers, pfProgress, Reply)
                  /\ Reply.Answer # "qaYes"
             ELSE /\ ~Outcome.ActionCancelled
                  /\ (Reply.Raised # "none" \/
                      Reply.Answer \in LoopQueryOffers(TRUE, FALSE))
          /\ (A.Outcome = "retry" => pfLast.Attempts + 1 < MaxAttempts)
          /\ pfProgress' = [pfProgress EXCEPT !.SkipToAll = A.SkipToAll,
                                              !.Cancel = A.Cancel]
          /\ pfActions' = IF A.Action = "none" THEN pfActions
                          ELSE Append(pfActions, A.Action)
          /\ pfFinished' = IF A.Outcome = "retry" THEN pfFinished
                           ELSE Append(pfFinished, [File |-> pfIndex,
                                                    Success |-> A.Success])
          /\ pfIndex' = IF A.Outcome = "retry" \/ Leaves THEN pfIndex ELSE pfIndex + 1
          /\ pfPc' = IF Leaves THEN "raised" ELSE "loop"
          /\ pfTransaction' = IF Leaves THEN End.Transaction ELSE T1
          /\ pfActive' = IF Leaves THEN End.Active ELSE Active1
          /\ pfLast' = [File |-> pfIndex, Via |-> A.Via, Outcome |-> A.Outcome,
                        Attempts |-> IF A.Outcome = "retry" THEN pfLast.Attempts + 1
                                     ELSE 0,
                        Escaped |-> A.Escaped, Result |-> FALSE,
                        Raised |-> IF ~Leaves THEN "none"
                                   ELSE IF End.Raised # "none" THEN End.Raised
                                   ELSE A.Escaped]
  /\ UNCHANGED pfCall
  /\ UNCHANGED pfOthers

\* the end of ProcessFiles: the loop is over, EndTransaction on the remote
\* side, the result and the end of the progress object
ProcessFilesEnd ==
  /\ pfPc = "loop"
  /\ ~ProcessFilesLoop(pfIndex, pfCall.Count, pfProgress)
  /\ \E Reread \in {"ok", "raised"} :
       \E End \in {ProcessFilesEndTransaction(pfCall, pfTransaction, pfActive, Reread)} :
          /\ pfTransaction' = End.Transaction
          /\ pfActive' = End.Active
          /\ pfPc' = IF End.Raised # "none" THEN "raised" ELSE "returned"
          /\ pfLast' = [NoProcessFile EXCEPT
                          !.Outcome = "end",
                          !.Result = (End.Raised = "none" /\ ProcessFilesResult(pfProgress)),
                          !.Raised = End.Raised]
  /\ UNCHANGED <<pfCall, pfIndex, pfProgress, pfFinished, pfActions>>
  /\ UNCHANGED pfOthers

-----------------------------------------------------------------------------
(* Callback guards: TCallbackGuard around the callbacks of a terminal *)
cgOthers == <<syVars, rtVars, dlVars, cfVars, trVars, ssVars, dcVars, cdVars, tuVars, scVars, pfVars, sfVars, ttVars, opVars, roVars>>

MaxGuards == 3        \* callbacks nested within callbacks

\* the errors a fatal error is raised for
GuardErrors == {"E1", "E2"}
NoException == [Type |-> "none", Error |-> "none"]
CallbackGuardAbort == [Type |-> "ECallbackGuardAbort", Error |-> "none"]
\* ESshFatal(E, Msg): a fatal error that carries E
SshFatal(E) == [Type |-> "ESshFatal", Error |-> E.Error]
\* the exceptions a fatal error is first raised for
FirstExceptions == {[Type |-> "Exception", Error |-> e] : e \in GuardErrors}

\* the last step: the guard it was about, whether that guard was the one
\* in the terminal's slot and was guarding, and the error it held
NoGuardOp == [Op |-> "none", Guard |-> 0, Registered |-> FALSE,
              Guarding |-> FALSE, Recorded |-> "none",
              E |-> NoException, Raised |-> NoException]

\* TCallbackGuard::TCallbackGuard registering over a registered guard
GuardMutant(Slot) == [FFatalError |-> "none", FGuarding |-> TRUE]

\* TCallbackGuard::TCallbackGuard: the guard as constructed while the
\* terminal's FCallbackGuard is Slot (0 is NULL)
Guard(Slot) == [FFatalError |-> "none", FGuarding |-> Slot = 0]

\* TCallbackGuard::FatalError: the error the guard holds afterwards
GuardFatalError(G, E) ==
  IF E.Type # "ECallbackGuardAbort" THEN [G EXCEPT !.FFatalError = E.Error] ELSE G

\* TCallbackGuard::Verify: the guard afterwards, the terminal's slot and
\* what it raises
Verify(G, Slot) ==
  IF G.FGuarding
  THEN [Guard |-> [G EXCEPT !.FGuarding = FALSE], Slot |-> 0,
        Raised |-> IF G.FFatalError # "none"
                   THEN [Type |-> "ESshFatal", Error |-> G.FFatalError]
                   ELSE NoException]
  ELSE [Guard |-> G, Slot |-> Slot, Raised |-> NoException]

\* TCallbackGuard::~TCallbackGuard: the terminal's slot afterwards
GuardDestroy(G, Slot) == IF G.FGuarding THEN 0 ELSE Slot

CgIdle ==
  /\ cgGuards = << >> /\ cgCallbackGuard = 0
  /\ cgRaised = NoException /\ cgAlive = TRUE /\ cgLast = NoGuardOp

\* a frame of the terminal constructs a guard and invokes a callback
GuardCallback ==
  /\ cgAlive /\ cgRaised = NoException
  /\ Len(cgGuards) < MaxGuards
  /\ \E G \in {Guard(cgCallbackGuard)} :
       /\ cgGuards' = Append(cgGuards, G)
       /\ cgCallbackGuard' = IF G.FGuarding THEN Len(cgGuards) + 1 ELSE cgCallbackGuard
       /\ cgLast' = [NoGuardOp EXCEPT !.Op = "TCallbackGuard",
                                      !.Guard = Len(cgGuards) + 1,
                                      !.Registered = G.FGuarding,
                                      !.Guarding = G.FGuarding]
  /\ UNCHANGED <<cgRaised, cgAlive>>
  /\ UNCHANGED cgOthers

\* TTerminal::FatalError(E) of a session with no OnClose handler, called
\* for a new error or, from an exception handler, for the exception that
\* is going on
GuardedFatalError ==
  /\ cgAlive
  /\ \E E \in (IF cgRaised = NoException THEN FirstExceptions ELSE {cgRaised}) :
       IF cgCallbackGuard # 0
       THEN /\ cgGuards' = [cgGuards EXCEPT ![cgCallbackGuard] = GuardFatalError(@, E)]
            /\ cgRaised' = CallbackGuardAbort
            /\ cgLast' = [NoGuardOp EXCEPT
                            !.Op = "FatalError", !.Guard = cgCallbackGuard,
                            !.Registered = TRUE, !.E = E,
                            !.Guarding = cgGuards[cgCallbackGuard].FGuarding,
                            !.Recorded = cgGuards'[cgCallbackGuard].FFatalError,
                            !.Raised = CallbackGuardAbort]
       ELSE /\ cgRaised' = SshFatal(E)
            /\ cgLast' = [NoGuardOp EXCEPT !.Op = "FatalError", !.E = E,
                                           !.Raised = SshFatal(E)]
            /\ UNCHANGED cgGuards
  /\ UNCHANGED <<cgCallbackGuard, cgAlive>>
  /\ UNCHANGED cgOthers

\* the code of the innermost callback raises an exception of its own
CallbackThrows ==
  /\ cgGuards # << >> /\ cgRaised = NoException
  /\ \E E \in FirstExceptions :
       /\ cgRaised' = E
       /\ cgLast' = [NoGuardOp EXCEPT !.Op = "throw", !.E = E, !.Raised = E]
  /\ UNCHANGED <<cgGuards, cgCallbackGuard, cgAlive>>
  /\ UNCHANGED cgOthers

\* the code of the innermost callback, or the code above every callback,
\* handles the exception that is going on
CallbackCatches ==
  /\ cgRaised # NoException
  /\ cgRaised' = NoException
  /\ cgLast' = [NoGuardOp EXCEPT !.Op = "catch", !.E = cgRaised]
  /\ UNCHANGED <<cgGuards, cgCallbackGuard, cgAlive>>
  /\ UNCHANGED cgOthers

\* the innermost callback destroys the terminal: TTerminal::~TTerminal
\* dismisses the registered guard, which holds no error (the assertion of
\* TCallbackGuard::Dismiss)
TerminalDestroy ==
  /\ cgAlive /\ cgRaised = NoException
  /\ cgGuards # << >>
  /\ cgCallbackGuard # 0 => cgGuards[cgCallbackGuard].FFatalError = "none"
  /\ cgAlive' = FALSE
  /\ cgGuards' = IF cgCallbackGuard # 0
                 THEN [cgGuards EXCEPT ![cgCallbackGuard].FGuarding = FALSE]
                 ELSE cgGuards
  /\ cgLast' = [NoGuardOp EXCEPT !.Op = "~TTerminal", !.Guard = cgCallbackGuard]
  /\ UNCHANGED <<cgCallbackGuard, cgRaised>>
  /\ UNCHANGED cgOthers

\* the innermost callback returns: Guard.Verify() and the end of the
\* guard's scope
CallbackReturns ==
  /\ cgGuards # << >> /\ cgRaised = NoException
  /\ \E n \in {Len(cgGuards)} :
     \E V \in {Verify(cgGuards[n], cgCallbackGuard)} :
       /\ cgGuards' = SubSeq(cgGuards, 1, n - 1)
       /\ cgCallbackGuard' = GuardDestroy(V.Guard, V.Slot)
       /\ cgRaised' = V.Raised
       /\ cgLast' = [NoGuardOp EXCEPT
                       !.Op = "Verify", !.Guard = n,
                       !.Registered = (cgCallbackGuard = n),
                       !.Guarding = cgGuards[n].FGuarding,
                       !.Recorded = cgGuards[n].FFatalError,
                       !.Raised = V.Raised]
  /\ UNCHANGED cgAlive
  /\ UNCHANGED cgOthers

\* the innermost callback ends with the exception that is going on: the
\* frame that constructed the guard is left without Guard.Verify() and
\* the guard is destroyed
CallbackRaises ==
  /\ cgGuards # << >> /\ cgRaised # NoException
  /\ \E n \in {Len(cgGuards)} :
       /\ cgGuards' = SubSeq(cgGuards, 1, n - 1)
       /\ cgCallbackGuard' = GuardDestroy(cgGuards[n], cgCallbackGuard)
       /\ cgLast' = [NoGuardOp EXCEPT
                       !.Op = "~TCallbackGuard", !.Guard = n,
                       !.Registered = (cgCallbackGuard = n),
                       !.Guarding = cgGuards[n].FGuarding,
                       !.Recorded = cgGuards[n].FFatalError,
                       !.E = cgRaised, !.Raised = cgRaised]
  /\ UNCHANGED <<cgRaised, cgAlive>>
  /\ UNCHANGED cgOthers

-----------------------------------------------------------------------------
(* Keep-up-to-date monitor: TSynchronizeController::SynchronizeFilter *)
sfOthers == <<syVars, rtVars, dlVars, cfVars, trVars, ssVars, dcVars, cdVars, tuVars, scVars, pfVars, cgVars, ttVars, opVars, roVars>>

\* a local path is its components and whether a backslash ends it
FilterNames == {"a", "b"}
LocalPath(Comps, Slash) == [Comps |-> Comps, Slash |-> Slash]
\* ExtractFilePath: the path up to and including the last backslash
ExtractFilePath(Path) ==
  IF Path.Slash THEN Path
  ELSE LocalPath(SubSeq(Path.Comps, 1, Len(Path.Comps) - 1), TRUE)
\* ExtractFileName: what follows the last backslash
ExtractFileName(Path) ==
  IF Path.Slash THEN "" ELSE Path.Comps[Len(Path.Comps)]
IncludeTrailingBackslash(Path) == [Path EXCEPT !.Slash = TRUE]

\* the watched root, as FSynchronizeParams.LocalDirectory may hold it
WatchedRoots == {LocalPath(<<"root">>, s) : s \in BOOLEAN}
\* the directories the monitor may put to the filter: children of the
\* root, their children, and a directory beside the root
MonitoredDirectories ==
  {LocalPath(<<"root", n>>, FALSE) : n \in FilterNames} \cup
  {LocalPath(<<"root", n, m>>, FALSE) : n \in FilterNames, m \in FilterNames} \cup
  {LocalPath(<<"other", n>>, FALSE) : n \in FilterNames}

\* FOptions->Filter: NULL or the sorted list of the names chosen
NoFilter == [Present |-> FALSE, Names |-> {}]
Filters == {NoFilter} \cup {[Present |-> TRUE, Names |-> N] : N \in SUBSET FilterNames}
\* the copy-param as the set of directory names its masks exclude
CopyParams == SUBSET FilterNames
\* TCopyParamType::AllowTransfer of a directory on the local side
AllowTransfer(CopyParam, DirectoryName) ==
  ExtractFileName(DirectoryName) \notin CopyParam

NoFilterCall == [Called |-> FALSE, DirectoryName |-> LocalPath(<< >>, FALSE),
                 AddIn |-> FALSE, Add |-> FALSE]

\* SynchronizeFilter putting every directory to the user's filter
SynchronizeFilterAddMutant(Controller, DirectoryName, Add) ==
  LET Add1 == IF Controller.Filter.Present
              THEN ExtractFileName(DirectoryName) \in Controller.Filter.Names
              ELSE Add
  IN Add1 /\ AllowTransfer(Controller.CopyParam, DirectoryName)

\* TSynchronizeController::SynchronizeFilter: the value of Add on return
SynchronizeFilterAdd(Controller, DirectoryName, Add) ==
  LET Add1 == IF /\ Controller.Filter.Present
                 /\ IncludeTrailingBackslash(ExtractFilePath(DirectoryName)) =
                      IncludeTrailingBackslash(Controller.LocalDirectory)
              THEN ExtractFileName(DirectoryName) \in Controller.Filter.Names
              ELSE Add
  IN Add1 /\ AllowTransfer(Controller.CopyParam, DirectoryName)

SfIdle ==
  /\ sfController = [Filter |-> NoFilter, LocalDirectory |-> LocalPath(<<"root">>, FALSE),
                     CopyParam |-> {}]
  /\ sfLast = NoFilterCall

SfInit ==
  /\ \E F \in Filters, L \in WatchedRoots, C \in CopyParams :
       sfController = [Filter |-> F, LocalDirectory |-> L, CopyParam |-> C]
  /\ sfLast = NoFilterCall

\* the monitor asks whether to watch a directory; Add is its proposal
SynchronizeFilter ==
  /\ \E DirectoryName \in MonitoredDirectories, Add \in BOOLEAN :
       sfLast' = [Called |-> TRUE, DirectoryName |-> DirectoryName, AddIn |-> Add,
                  Add |-> SynchronizeFilterAdd(sfController, DirectoryName, Add)]
  /\ UNCHANGED sfController
  /\ UNCHANGED sfOthers

-----------------------------------------------------------------------------
(* Bulk operations: properties *)

\* the last call of Progress.Finish was for file File with flag Success
FinishedWith(File, Success) ==
  /\ pfFinished # << >>
  /\ pfFinished[Len(pfFinished)] = [File |-> File, Success |-> Success]

\* the loop of ProcessFiles goes on with the file after the last one
ContinuesAfterLast ==
  /\ pfPc = "loop" /\ pfLast.Raised = "none"
  /\ pfProgress.Cancel = "csContinue"
  /\ pfIndex = pfLast.File + 1

\* C23 as stated: a file skipped through the retry handling (Skip answered
\* or skip-to-all applied) is reported to the finished callback with
\* Success = false, the skip does not leave ProcessFiles and the loop goes
\* on with the next file.
C23_Original ==
  pfLast.Outcome = "skip" =>
    /\ FinishedWith(pfLast.File, FALSE)
    /\ ContinuesAfterLast

\* C23 amended: a file skipped in a file operation loop (skip-file error)
\* is reported with Success = false; the skip is absorbed and the loop goes
\* on with the next file unless the session raises on failure, in which
\* case the skip-file error leaves ProcessFiles.  A file skipped in the
\* action-aware handling of DoDeleteFile is reported with Success = true
\* and the loop goes on with the next file.
C23_SkippedFiles ==
  pfLast.Outcome = "skip" =>
    IF pfLast.Via = "FileOperationLoopQuery"
    THEN /\ pfLast.Escaped = "EScpSkipFile"
         /\ FinishedWith(pfLast.File, FALSE)
         /\ IF pfCall.ExceptionOnFail
            THEN /\ pfPc = "raised" /\ pfLast.Raised = "EScpSkipFile"
                 /\ pfIndex = pfLast.File
            ELSE ContinuesAfterLast
    ELSE /\ pfLast.Via = "CommandError" /\ pfLast.Escaped = "none"
         /\ FinishedWith(pfLast.File, TRUE)
         /\ ContinuesAfterLast

\* the second file of a local bulk operation skipped by skip-to-all after
\* the first one was skipped with the answer All
C23_Witness ==
  /\ pfLast.Outcome = "skip" /\ pfLast.Via = "FileOperationLoopQuery"
  /\ pfLast.File = 2 /\ pfProgress.SkipToAll /\ ~pfCall.ExceptionOnFail
  /\ pfFinished = <<[File |-> 1, Success |-> FALSE], [File |-> 2, Success |-> FALSE]>>
  /\ pfPc = "loop" /\ pfIndex = 3

-----------------------------------------------------------------------------
(* Callback guards: properties *)

\* the last step was FatalError under a registered guard: it raised the
\* silent abort and the guard holds the error (the one it held before when
\* the error given is the silent abort itself)
FatalErrorRecorded ==
  (cgLast.Op = "FatalError" /\ cgLast.Registered) =>
     /\ cgRaised = CallbackGuardAbort
     /\ cgLast.E.Type # "ECallbackGuardAbort" => cgLast.Recorded = cgLast.E.Error
     /\ cgLast.Recorded # "none"

\* the last step ended the callback of the registered guard, which held
\* an error
GuardedCallbackEnded ==
  /\ cgLast.Op \in {"Verify", "~TCallbackGuard"}
  /\ cgLast.Registered /\ cgLast.Recorded # "none"

\* C25: FatalError under an active guard records the error and raises
\* ECallbackGuardAbort; after the callback ends, in whatever way, the
\* frame of the guard raises a fatal error carrying the recorded error.
C25_Original ==
  /\ FatalErrorRecorded
  /\ GuardedCallbackEnded =>
        cgRaised = [Type |-> "ESshFatal", Error |-> cgLast.Recorded]

\* the guards that are guarding
Guarding == {i \in 1..Len(cgGuards) : cgGuards[i].FGuarding}

\* C26: at most one guard is registered on a terminal; a guard constructed
\* while another is registered never registers and leaves the slot alone
\* when it is verified or destroyed; once the registered guard is verified
\* or destroyed the slot of the terminal is empty.
C26_OneGuard ==
  [][ /\ Cardinality(Guarding') <= 1
      /\ cgAlive' => Guarding' = (IF cgCallbackGuard' = 0 THEN {} ELSE {cgCallbackGuard'})
      /\ (cgLast'.Op = "TCallbackGuard" /\ cgCallbackGuard # 0) =>
            /\ ~cgGuards'[Len(cgGuards')].FGuarding
            /\ cgCallbackGuard' = cgCallbackGuard
      /\ (cgLast'.Op \in {"Verify", "~TCallbackGuard"} /\ ~cgLast'.Registered) =>
            cgCallbackGuard' = cgCallbackGuard
      /\ (cgLast'.Op \in {"Verify", "~TCallbackGuard"} /\ cgLast'.Registered /\ cgAlive) =>
            cgCallbackGuard' = 0 ]_vars

\* an inert guard within the callback of the registered one was destroyed
\* and left the registered guard in the slot
C26_Witness ==
  /\ cgLast.Op \in {"Verify", "~TCallbackGuard"} /\ ~cgLast.Registered
  /\ cgLast.Guard = 2 /\ cgCallbackGuard = 1 /\ Guarding = {1}
  /\ cgAlive

-----------------------------------------------------------------------------
(* Keep-up-to-date monitor: properties *)

\* the directory is a direct child of the watched root
DirectChild(DirectoryName) ==
  /\ Len(DirectoryName.Comps) = Len(sfController.LocalDirectory.Comps) + 1
  /\ SubSeq(DirectoryName.Comps, 1, Len(DirectoryName.Comps) - 1) =
       sfController.LocalDirectory.Comps

LastName(DirectoryName) == DirectoryName.Comps[Len(DirectoryName.Comps)]

\* C27 as stated: the filter admits a directory iff it is a direct child of
\* the watched root, its name matches the optional filter and the
\* copy-param allows its transfer.
C27_Original ==
  sfLast.Called =>
    (sfLast.Add <=>
       /\ DirectChild(sfLast.DirectoryName)
       /\ (sfController.Filter.Present =>
             LastName(sfLast.DirectoryName) \in sfController.Filter.Names)
       /\ LastName(sfLast.DirectoryName) \notin sfController.CopyParam)

\* C27 amended: the filter admits a directory iff the copy-param allows its
\* transfer and either it is a direct child of the watched root, a filter
\* is set and its name is in the filter, or no filter applies to it (none
\* is set, or it is not a direct child of the root) and the monitor
\* proposed it.
C27_FirstLevelFilter ==
  sfLast.Called =>
    (sfLast.Add <=>
       /\ IF sfController.Filter.Present /\ DirectChild(sfLast.DirectoryName)
          THEN LastName(sfLast.DirectoryName) \in sfController.Filter.Names
          ELSE sfLast.AddIn
       /\ LastName(sfLast.DirectoryName) \notin sfController.CopyParam)

\* a directory two levels below the root admitted although its name is not
\* in the filter that is set
C27_Witness ==
  /\ sfLast.Called /\ sfLast.Add
  /\ sfController.Filter.Present
  /\ Len(sfLast.DirectoryName.Comps) = 3
  /\ LastName(sfLast.DirectoryName) \notin sfController.Filter.Names


-----------------------------------------------------------------------------
(* ProcessFiles and the cancel status *)

\* C31: in ProcessFiles, once the cancel status of the progress object
\* differs from csContinue the only step left is the end of the loop: no
\* file is handed to the per-file operation, nothing is finished and no
\* action is recorded; and when ProcessFiles returns, its result is true
\* exactly when the cancel status is still csContinue
C31_CancelStopsProcessFiles ==
  [][/\ (pfPc = "loop" /\ pfProgress.Cancel # "csContinue")
          => /\ pfLast'.Outcome = "end"
             /\ pfFinished' = pfFinished /\ pfActions' = pfActions
             /\ pfIndex' = pfIndex
     /\ (pfPc = "loop" /\ pfPc' = "returned")
          => (pfLast'.Result <=> pfProgress.Cancel = "csContinue")]_vars

\* ProcessFiles has returned false after a cancel that left files of the
\* list untouched
C31_Witness ==
  /\ pfPc = "returned" /\ pfLast.Outcome = "end" /\ ~pfLast.Result
  /\ pfProgress.Cancel = "csCancel"
  /\ Len(pfFinished) < pfCall.Count
  /\ pfIndex <= pfCall.Count

-----------------------------------------------------------------------------
(* SynchronizeApply and a cancelled bulk operation *)

\* C32: in SynchronizeApply outside timestamp mode a bulk operation
\* (CopyToLocal, DeleteFiles, CopyToRemote, DeleteLocalFiles) that returned
\* cancelled is the last bulk operation invoked, for its own group and for
\* every later one; the apply has ended with abort and the transaction the
\* apply opened has been ended
C32_CancelledBulkAborts ==
  \A i \in 1..Len(syCalls) :
    (syCalls[i].Result = "cancelled" /\ FLAGCLEAR(syParams, "spTimestamp"))
      => /\ i = Len(syCalls)
         /\ syPc = "aborted"
         /\ ~syInTransaction

\* an apply whose first bulk operation was cancelled while its group had
\* another list to work on, or a later group was left
C32_Witness ==
  /\ syPc = "aborted" /\ FLAGCLEAR(syParams, "spTimestamp")
  /\ Len(syCalls) >= 1
  /\ syCalls[Len(syCalls)].Result = "cancelled"
  /\ syCalls[Len(syCalls)].Op \in {"CopyToLocal", "DeleteFiles", "CopyToRemote"}
  /\ \/ syIndex <= Len(syChecklist)
     \/ StageFrom(syParams, syLists,
                  StageIndex(syParams, syCalls[Len(syCalls)].Op) + 1) # "partition"
  /\ ~syInTransaction

-----------------------------------------------------------------------------
(* The tunnel driver thread: TTunnelThread::Execute and its owner          *)
ttOthers == <<syVars, rtVars, dlVars, cfVars, trVars, ssVars, dcVars, cdVars, tuVars, scVars, pfVars, cgVars, sfVars, opVars, roVars>>

MaxIdleCalls == 10    \* calls of FSecureShell->Idle one thread makes

NoExecute == [Raised |-> FALSE, ActiveAtCatch |-> FALSE, Closed |-> FALSE]

\* the thread right after Init() started it on the shell that OpenTunnel
\* has opened
TtIdle ==
  /\ ttPc = "while" /\ ttTerminated = FALSE /\ ttShellActive = TRUE
  /\ ttIdleCalls = 0 /\ ttLast = NoExecute

\* the loop of Execute that never looks at the flag
ExecuteWhileMutant(Terminated) == TRUE

\* the condition of the loop of Execute
ExecuteWhile(Terminated) == ~Terminated

\* TTunnelThread::Terminate, called by the owner of the thread
Terminate ==
  /\ ~ttTerminated
  /\ ttTerminated' = TRUE
  /\ UNCHANGED <<ttPc, ttShellActive, ttIdleCalls, ttLast>>
  /\ UNCHANGED ttOthers

\* the test of the loop: the thread reads the flag and either starts the
\* next call of Idle or leaves the loop and the thread procedure
ExecuteLoop ==
  /\ ttPc = "while"
  /\ ExecuteWhile(ttTerminated) => ttIdleCalls < MaxIdleCalls
  /\ IF ExecuteWhile(ttTerminated)
     THEN ttPc' = "Idle" /\ ttIdleCalls' = ttIdleCalls + 1
     ELSE ttPc' = "exited" /\ UNCHANGED ttIdleCalls
  /\ UNCHANGED <<ttTerminated, ttShellActive, ttLast>>
  /\ UNCHANGED ttOthers

\* FSecureShell->Idle(250) returns
IdleReturns ==
  /\ ttPc = "Idle"
  /\ ttPc' = "while"
  /\ UNCHANGED <<ttTerminated, ttShellActive, ttIdleCalls, ttLast>>
  /\ UNCHANGED ttOthers

\* FSecureShell->Idle(250) raises, with the shell still active or closed by
\* the error
IdleRaises ==
  /\ ttPc = "Idle"
  /\ ttPc' = "catch"
  /\ \E Active \in BOOLEAN : ttShellActive' = Active
  /\ ttLast' = [NoExecute EXCEPT !.Raised = TRUE]
  /\ UNCHANGED <<ttTerminated, ttIdleCalls>>
  /\ UNCHANGED ttOthers

\* TSecureShell::Close: the shell is no longer active afterwards
SecureShellClose(Active) == FALSE

\* the handler of Execute: the shell is closed if it is still active, and
\* the exception ends here
ExecuteCatch ==
  /\ ttPc = "catch"
  /\ ttPc' = "exited"
  /\ ttShellActive' = IF ttShellActive THEN SecureShellClose(ttShellActive)
                      ELSE ttShellActive
  /\ ttLast' = [Raised |-> TRUE, ActiveAtCatch |-> ttShellActive,
                Closed |-> ttShellActive]
  /\ UNCHANGED <<ttTerminated, ttIdleCalls>>
  /\ UNCHANGED ttOthers

-----------------------------------------------------------------------------
(* Operations that open a transaction: BeginTransaction, the work, and the *)
(* EndTransaction of the cleanup block                                     *)
opOthers == <<syVars, rtVars, dlVars, cfVars, trVars, ssVars, dcVars, cdVars, tuVars, scVars, pfVars, cgVars, sfVars, ttVars, roVars>>

\* the operations of the Terminal whose body runs between BeginTransaction
\* and an EndTransaction in a cleanup block that does nothing else that
\* can raise
TransactedOperations ==
  {"DoStartup", "ProcessFiles", "CopyToRemote", "CopyToLocal", "SynchronizeApply"}

\* how the work of an operation, or a command of its cleanup block, ends:
\* it returns, it raises an ordinary error, or it raises a fatal error that
\* closes the session
WorkOutcomes == {"ok", "raised", "fatal"}

NoOperation == [Op |-> "none", Entry |-> 0, Work |-> "none", Cleanup |-> "none",
                Ended |-> FALSE, Raised |-> "none"]

OpIdle ==
  /\ opPc = "idle" /\ opInTransaction = 0 /\ opActive = TRUE
  /\ opExceptionOnFail = FALSE /\ opLast = NoOperation

\* the session before an operation: it may be inside a transaction of the
\* caller, and the caller may have asked for exceptions on failure
OpInit ==
  /\ opPc = "idle" /\ opActive = TRUE /\ opLast = NoOperation
  /\ opInTransaction \in 0..1
  /\ opExceptionOnFail \in BOOLEAN

\* the exception that is going on after a command ended with Outcome
RaisedBy(Outcome) ==
  IF Outcome = "fatal" THEN "ESshFatal"
  ELSE IF Outcome = "raised" THEN "ECommand" ELSE "none"

\* TTerminal::EndTransaction called with the counter at Level: the counter
\* goes down first; the outermost one of an active session rereads what is
\* pending, and a reread may raise
OperationEndTransaction(Level, Active, Reread) ==
  LET Rereads == Active /\ Level - 1 = 0
  IN [InTransaction |-> Level - 1,
      Active |-> Active /\ ~(Rereads /\ Reread = "fatal"),
      Raised |-> IF Rereads THEN RaisedBy(Reread) ELSE "none"]

\* TTerminal::FileExists: a failure to read the file is an answer of false
\* while the session is active and goes on when a fatal error closed it
FileExists(Outcome) ==
  [Result |-> Outcome = "ok",
   Raised |-> IF Outcome = "fatal" THEN "ESshFatal" ELSE "none"]

\* TTerminal::ChangeDirectory as the cleanup block of MoveFiles calls it:
\* CommandError with no answers shows an ordinary error and returns unless
\* the session raises on failure; a fatal error always goes on
CleanupChangeDirectory(ExceptionOnFail, Outcome) ==
  IF Outcome = "fatal" THEN "ESshFatal"
  ELSE IF Outcome = "raised" /\ ExceptionOnFail THEN "ECommand"
  ELSE "none"

\* the cleanup block of MoveFiles up to its EndTransaction: on an active
\* session, when the current directory may have been moved, its existence
\* is checked, then that of its parents up to the root, and the session
\* changes to the nearest existing one; Raised is the exception that leaves
\* the block
MoveFilesCleanup(Active, ExceptionOnFail, PossiblyMoved, Current, Nearest, Change) ==
  LET C == FileExists(Current)
      N == FileExists(Nearest)
      None == [Raised |-> "none", Active |-> Active, Checked |-> FALSE]
  IN IF ~Active \/ ~PossiblyMoved THEN None
     ELSE IF C.Raised # "none"
     THEN [Raised |-> C.Raised, Active |-> FALSE, Checked |-> TRUE]
     ELSE IF C.Result THEN [None EXCEPT !.Checked = TRUE]
     ELSE IF N.Raised # "none"
     THEN [Raised |-> N.Raised, Active |-> FALSE, Checked |-> TRUE]
     ELSE [Raised |-> CleanupChangeDirectory(ExceptionOnFail, Change),
           Active |-> Change # "fatal", Checked |-> TRUE]

\* one of the operations of TransactedOperations: BeginTransaction, the
\* work, and EndTransaction in the cleanup block, which runs however the
\* work ended; Raised is the exception that leaves the transaction block
TransactedOperation ==
  /\ opPc \in {"idle", "returned", "raised"}
  /\ opActive /\ opInTransaction < MaxNesting
  /\ \E Op \in TransactedOperations, Work \in WorkOutcomes, Reread \in WorkOutcomes :
       \E End \in {OperationEndTransaction(opInTransaction + 1,
                                           opActive /\ Work # "fatal", Reread)} :
       \E Raised \in {IF End.Raised # "none" THEN End.Raised ELSE RaisedBy(Work)} :
          /\ opInTransaction' = End.InTransaction
          /\ opActive' = End.Active
          /\ opPc' = IF Raised = "none" THEN "returned" ELSE "raised"
          /\ opLast' = [Op |-> Op, Entry |-> opInTransaction, Work |-> Work,
                        Cleanup |-> "none", Ended |-> TRUE, Raised |-> Raised]
  /\ UNCHANGED opExceptionOnFail
  /\ UNCHANGED opOthers

\* TTerminal::MoveFiles: BeginTransaction, ProcessFiles over the list, and
\* the cleanup block with the check of the current directory before
\* EndTransaction
MoveFiles ==
  /\ opPc \in {"idle", "returned", "raised"}
  /\ opActive /\ opInTransaction < MaxNesting
  /\ \E Work \in WorkOutcomes, PossiblyMoved \in BOOLEAN,
        Current \in WorkOutcomes, Nearest \in WorkOutcomes,
        Change \in WorkOutcomes, Reread \in WorkOutcomes :
       \E Cleanup \in {MoveFilesCleanup(opActive /\ Work # "fatal", opExceptionOnFail,
                                        PossiblyMoved, Current, Nearest, Change)} :
       \E End \in {IF Cleanup.Raised = "none"
                   THEN OperationEndTransaction(opInTransaction + 1,
                                                Cleanup.Active, Reread)
                   ELSE [InTransaction |-> opInTransaction + 1,
                         Active |-> Cleanup.Active, Raised |-> Cleanup.Raised]} :
       \E Raised \in {IF End.Raised # "none" THEN End.Raised ELSE RaisedBy(Work)} :
          /\ opInTransaction' = End.InTransaction
          /\ opActive' = End.Active
          /\ opPc' = IF Raised = "none" THEN "returned" ELSE "raised"
          /\ opLast' = [Op |-> "MoveFiles", Entry |-> opInTransaction, Work |-> Work,
                        Cleanup |-> IF ~Cleanup.Checked THEN "none"
                                    ELSE IF Cleanup.Raised = "none" THEN "ok"
                                    ELSE Cleanup.Raised,
                        Ended |-> Cleanup.Raised = "none", Raised |-> Raised]
  /\ UNCHANGED opExceptionOnFail
  /\ UNCHANGED opOthers

-----------------------------------------------------------------------------
(* Operations and the transaction nesting counter *)

\* C34: every operation of the Terminal that opens a transaction (DoStartup,
\* ProcessFiles on the remote side, MoveFiles, CopyToRemote, CopyToLocal,
\* SynchronizeApply) leaves FInTransaction at the value it had at entry,
\* however the operation ends, also when the work or a step of the cleanup
\* block raises a fatal error
C34_Original ==
  opLast.Op # "none" => opInTransaction = opLast.Entry

-----------------------------------------------------------------------------
(* The end of the tunnel driver thread *)

\* C33: the tunnel driver thread always ends, and no exception leaves its
\* procedure: once the owner has set the terminated flag no further call of
\* Idle is started and the thread exits after the call in progress; when a
\* call of Idle raises, the next step of the thread closes the shell
\* exactly when the shell is still active, starts no call of Idle and
\* exits
C33_ThreadEnds ==
  /\ [][/\ ttTerminated => ttIdleCalls' = ttIdleCalls
        /\ ttPc = "catch"
             => /\ ttPc' \in {"catch", "exited"}
                /\ ttPc' = "exited"
                     => /\ ttLast'.Closed = ttShellActive
                        /\ ttShellActive' = FALSE
        /\ ttPc = "exited" => ttPc' = "exited"]_vars
  /\ ttTerminated ~> (ttPc = "exited")
  /\ (ttPc = "catch") ~> (ttPc = "exited")

\* the owner set the flag during a call of Idle, the call raised with the
\* shell still active, and the thread has closed the shell and exited
C33_Witness ==
  /\ ttPc = "exited" /\ ttTerminated /\ ttIdleCalls >= 1
  /\ ttLast.Raised /\ ttLast.ActiveAtCatch /\ ttLast.Closed /\ ~ttShellActive

-----------------------------------------------------------------------------
(* The two counters of the session *)

\* C40: FInTransaction and FExceptionOnFail are never negative:
\* EndTransaction with no transaction open raises, leaves the counter at 0
\* and the pending flags alone and rereads nothing; SetExceptionOnFail at 0
\* either counts up to 1 or, called with false, raises and leaves the
\* counter at 0
C40_CountersNotNegative ==
  [][/\ trInTransaction' >= 0 /\ ssExceptionOnFail' >= 0
     /\ (ssLast'.Op = "EndTransaction" /\ trInTransaction = 0)
          => /\ ssLast'.Raised
             /\ trInTransaction' = 0
             /\ ssLast'.Calls = {}
             /\ UNCHANGED <<trReadCurrentDirectoryPending, trReadDirectoryPending>>
     /\ (ssLast'.Op = "SetExceptionOnFail" /\ ssExceptionOnFail = 0)
          => \/ ssExceptionOnFail' = 1 /\ ~ssLast'.Raised
             \/ ssExceptionOnFail' = 0 /\ ssLast'.Raised]_vars

\* SetExceptionOnFail(false) has raised on an opened session whose counter
\* is 0 and which is in no transaction
C40_Witness ==
  /\ ssLast.Op = "SetExceptionOnFail" /\ ssLast.Raised
  /\ ssExceptionOnFail = 0 /\ trInTransaction = 0
  /\ ssStatus = "ssOpened"

-----------------------------------------------------------------------------
(* The assertions of the overwrite confirmation *)

\* C36: within one transfer, whatever overwrite confirmations and
\* read-only prompts came before and whatever was answered, a call of
\* EffectiveBatchOverwrite that takes the branch of confirmations being
\* off finds the batch mode of the progress at boNo: its assertion holds
C36_Original ==
  cfLast.Called => "EffectiveBatchOverwrite" \notin cfLast.Failed

\* C37: in ConfirmFileOverwrite, whenever the special batch mode is not
\* applicable to the file, the mode without the special ones differs from
\* it, for every combination of copy flags, batch mode of the progress and
\* presence of the file params: the assertion
\* BatchOverwrite != ABatchOverwrite holds
C37_Original ==
  cfLast.Called => "ConfirmFileOverwrite" \notin cfLast.Failed

-----------------------------------------------------------------------------
(* Timestamp mode *)

\* the inner loop of SynchronizeApply started at any item of the
\* checklist comes to an action it does not expect
ApplyUnexpected(Checklist, Params) ==
  \E i \in 1..Len(Checklist) :
    PartitionGroup(Checklist, Params, i, Checklist[i].Local.Directory,
                   Checklist[i].Remote.Directory, NoLists).Lists.Unexpected

\* C38: with spTimestamp set, for every mode and every combination of the
\* other params, the checklist of SynchronizeCollect holds download-update
\* and upload-update items only, and the loop of SynchronizeApply run on
\* it with the same params never comes to its default branch
C38_TimestampUpdatesOnly ==
  (syPc = "collected" /\ FLAGSET(syParams, "spTimestamp"))
    => /\ \A i \in 1..Len(syChecklist) :
            syChecklist[i].Action \in {"saDownloadUpdate", "saUploadUpdate"}
       /\ ~ApplyUnexpected(syChecklist, syParams)

\* a timestamp run in mode=remote over trees with a file only on the
\* remote side and a file that is newer locally: the only item is the
\* upload-update
C38_Witness ==
  /\ syPc = "collected" /\ FLAGSET(syParams, "spTimestamp") /\ syMode = "smRemote"
  /\ Len(syChecklist) = 1 /\ syChecklist[1].Action = "saUploadUpdate"
  /\ syChecklist[1].Checked
  /\ \E d \in DOMAIN syRemote : \E n \in DOMAIN syRemote[d] :
       syRemote[d][n].kind # "none" /\ syLocal[d][n].kind = "none"

-----------------------------------------------------------------------------
(* The change handler of the keep-up-to-date monitor *)

\* the loop of TSynchronizeController::SynchronizeChange over the
\* checklist from Index on: it stops at the first directory item, with
\* SubdirsChanged set for an upload-new or delete-remote one and at the
\* assertion for any other
RECURSIVE SubdirsChangedFrom(_, _)
SubdirsChangedFrom(Checklist, Index) ==
  IF Index > Len(Checklist)
  THEN [SubdirsChanged |-> FALSE, Asserted |-> FALSE]
  ELSE IF Checklist[Index].IsDirectory
  THEN IF Checklist[Index].Action \in {"saUploadNew", "saDeleteRemote"}
       THEN [SubdirsChanged |-> TRUE, Asserted |-> FALSE]
       ELSE [SubdirsChanged |-> FALSE, Asserted |-> TRUE]
  ELSE SubdirsChangedFrom(Checklist, Index + 1)

\* SynchronizeChange that takes every item for a changed sub-directory
SynchronizeChangeMutant(Checklist, Recurse) ==
  [SubdirsChanged |-> Recurse /\ Len(Checklist) > 0, Asserted |-> FALSE]

\* TSynchronizeController::SynchronizeChange once the synchronization has
\* handed back its checklist; Recurse is soRecurse of the options
SynchronizeChange(Checklist, Recurse) ==
  IF Recurse THEN SubdirsChangedFrom(Checklist, 1)
  ELSE [SubdirsChanged |-> FALSE, Asserted |-> FALSE]

\* C39: in mode=remote every directory item of the checklist of
\* SynchronizeCollect is an upload-new or a delete-remote; the change
\* handler run on the checklist sets SubdirsChanged exactly when soRecurse
\* is set and the checklist has such a directory item, and does not come
\* to its assert(false)
C39_DirectoryItems ==
  (syPc = "collected" /\ syMode = "smRemote")
    => /\ \A i \in 1..Len(syChecklist) :
            syChecklist[i].IsDirectory
              => syChecklist[i].Action \in {"saUploadNew", "saDeleteRemote"}
       /\ \A Recurse \in BOOLEAN :
            /\ ~SynchronizeChange(syChecklist, Recurse).Asserted
            /\ SynchronizeChange(syChecklist, Recurse).SubdirsChanged
                 <=> (Recurse /\ \E i \in 1..Len(syChecklist) :
                                   /\ syChecklist[i].IsDirectory
                                   /\ syChecklist[i].Action
                                        \in {"saUploadNew", "saDeleteRemote"})

\* a checklist of mode=remote with a file item ahead of a directory item
C39_Witness ==
  /\ syPc = "collected" /\ syMode = "smRemote"
  /\ Len(syChecklist) >= 2
  /\ ~syChecklist[1].IsDirectory
  /\ \E i \in 2..Len(syChecklist) :
       syChecklist[i].IsDirectory /\ syChecklist[i].Action = "saDeleteRemote"
  /\ SynchronizeChange(syChecklist, TRUE).SubdirsChanged

-----------------------------------------------------------------------------
(* The reopen loops, pass by pass *)
roOthers == <<syVars, rtVars, dlVars, cfVars, dcVars, cdVars, tuVars, scVars, pfVars, cgVars, sfVars, ttVars, opVars>>

MaxLoopRetries == 3  \* largest SessionReopenAutoMaximumNumberOfRetries of the loops

\* no Open and no QueryReopen is running
RoIdle ==
  /\ roPc = "idle" /\ roOwner = "none" /\ roParams = {} /\ roSaved = << >>
  /\ roRaised = "none" /\ roPasses = 0 /\ roReopens = 0

\* the exception handlers of one pass of Open's loop for the terminal A the
\* pass left; Reopen of the result is the loop's condition
OpenPassHandlers(A) ==
  IF A.Raised = "none"
  THEN {A}
  ELSE IF A.Raised = "error"
  THEN { [F EXCEPT !.Raised = "unqueried"] : F \in SessionFatalError(A, FALSE) }
  ELSE { DoQueryReopen(A, Answer) : Answer \in {"qaRetry", "qaAbort"} }

\* Open is called
OpenCall ==
  /\ roPc = "idle"
  /\ roPc' = "OpenLoop" /\ roOwner' = "none" /\ roPasses' = 0 /\ roRaised' = "none"
  /\ UNCHANGED <<roParams, roSaved, roReopens>>
  /\ UNCHANGED <<ssVars, trVars>>
  /\ UNCHANGED roOthers

\* one pass of the do/while loop of TTerminal::Open with its handlers: the
\* loop goes on, or Open returns with the retry counter reset, or it raises
OpenPass ==
  /\ roPc = "OpenLoop"
  /\ roPasses <= MaxLoopRetries + 1
  /\ \E S \in {SessionTerminal} :
       \E O \in ApplicableOutcomes(S) :
         \E A \in OpenAttempt(S, O) :
           \E Q \in OpenPassHandlers(A) :
             /\ roPasses' = roPasses + 1
             /\ IF Q.Reopen
                THEN /\ SessionFieldsStore(OpenCleanup(Q), "Open")
                     /\ roPc' = "OpenLoop"
                     /\ roRaised' = "none"
                ELSE /\ SessionFieldsStore(
                          IF Q.Raised = "none"
                          THEN [Q EXCEPT !.Data.NumberOfRetries = 0, !.Asked = 0]
                          ELSE Q, "Open")
                     /\ roPc' = IF roOwner = "QueryReopen" THEN "ReopenEnd" ELSE "idle"
                     /\ roRaised' = Q.Raised
  /\ UNCHANGED <<roOwner, roParams, roSaved, roReopens>>
  /\ UNCHANGED roOthers

\* TTerminal::QueryReopen up to its loop, for a fatal error nobody was asked
\* about yet
QueryReopenCall ==
  /\ roPc = "idle"
  /\ ssLast.Op = "FatalError"
  /\ \E S \in {SessionTerminal}, Params \in ReopenParams, Answer \in {"qaRetry", "qaAbort"} :
       \E Q \in {DoQueryReopen([S EXCEPT !.Raised = "fatal"], Answer)} :
         /\ SessionFieldsStore([Q EXCEPT !.Raised = "none"], "QueryReopen")
         /\ roPc' = IF Q.Reopen THEN "ReopenLoop" ELSE "idle"
         /\ roParams' = IF Q.Reopen THEN Params ELSE {}
  /\ roOwner' = "QueryReopen" /\ roReopens' = 0 /\ roPasses' = 0
  /\ roRaised' = "none" /\ roSaved' = << >>
  /\ UNCHANGED roOthers

\* the top of the loop of QueryReopen: Reopen up to its call of Open
ReopenCall ==
  /\ roPc = "ReopenLoop"
  /\ roReopens <= MaxLoopRetries
  /\ \E S \in {SessionTerminal} :
       \E P \in ReopenPrepare(S, roParams) :
         /\ SessionFieldsStore(P, "Reopen")
         /\ roSaved' = S
  /\ roPc' = "OpenLoop" /\ roReopens' = roReopens + 1
  /\ roPasses' = 0 /\ roRaised' = "none"
  /\ UNCHANGED <<roOwner, roParams>>
  /\ UNCHANGED roOthers

\* the handler of QueryReopen's loop for the terminal R that Reopen left;
\* the reopen timeout may have passed
QueryReopenHandlers(R) ==
  IF R.Raised = "none"
  THEN {[R EXCEPT !.Data.NumberOfRetries = 0, !.Reopen = TRUE]}
  ELSE IF GetActive(R)
  THEN {[R EXCEPT !.Reopen = FALSE]}
  ELSE {[R EXCEPT !.Reopen = FALSE]}
         \cup { DoQueryReopen(R, Answer) : Answer \in {"qaRetry", "qaAbort"} }

\* the condition of the loop of QueryReopen
QueryReopenWhile(Q) == ~GetActive(Q) /\ Q.Reopen

\* Open has ended inside Reopen: the finally block of Reopen, then the rest
\* of the pass of QueryReopen's loop
ReopenEnd ==
  /\ roPc = "ReopenEnd"
  /\ \E S \in {[SessionTerminal EXCEPT !.Raised = roRaised]} :
       \E R \in {ReopenRestore(roSaved, S)} :
         \E Q \in QueryReopenHandlers(R) :
           /\ SessionFieldsStore(
                IF R.Raised # "none" /\ GetActive(R) THEN Q
                ELSE [Q EXCEPT !.Raised = "none"], "QueryReopen")
           /\ roPc' = IF QueryReopenWhile(Q) THEN "ReopenLoop" ELSE "idle"
  /\ roSaved' = << >>
  /\ UNCHANGED <<roOwner, roParams, roRaised, roPasses, roReopens>>
  /\ UNCHANGED roOthers

\* a command of the open session fails fatally while no loop runs
LoopFatal == roPc = "idle" /\ SessionFatal

\* Close on an active session while no loop runs
LoopClose == roPc = "idle" /\ CloseCall

\* SessionReopenAutoMaximumNumberOfRetries of the configuration
ReopenMaximum == ssConfiguration.SessionReopenAutoMaximumNumberOfRetries

\* C35: the loop of Open and the loop of QueryReopen end: a call of Open
\* makes at most maximum + 1 passes and a call of QueryReopen at most
\* maximum calls of Reopen, whatever the answers and however the attempts
\* fail; with the retry counter at the maximum a failed pass does not lead
\* to another; QueryReopen asks nobody about a fatal error that Open has
\* asked about, and ends; and a loop that runs comes to its end
C35_ReopenLoopsEnd ==
  /\ [][/\ roPasses' <= ReopenMaximum + 1
        /\ roReopens' <= ReopenMaximum
        /\ (roPc = "OpenLoop" /\ ssData.NumberOfRetries >= ReopenMaximum)
             => roPc' # "OpenLoop"
        /\ (roPc = "ReopenEnd" /\ roRaised = "queried")
             => /\ roPc' = "idle"
                /\ "QueryReopen" \notin ssLast'.Calls
                /\ ssData'.NumberOfRetries = ssData.NumberOfRetries]_vars
  /\ (roPc # "idle") ~> (roPc = "idle")

\* QueryReopen has ended after two calls of Reopen, the last of which made
\* two failed passes of Open's loop and was stopped by the retry counter
C35_Witness ==
  /\ roPc = "idle" /\ roOwner = "QueryReopen"
  /\ roReopens = 2 /\ roPasses = 2 /\ roRaised = "queried"
  /\ ReopenMaximum = MaxLoopRetries
  /\ ssData.NumberOfRetries = ReopenMaximum
  /\ ssLast.Op = "QueryReopen" /\ ~ssLast.Reopen

-----------------------------------------------------------------------------
(* Specifications *)
RtIdle ==
  /\ rtPc = "idle" /\ rtProgress = NoProgress /\ rtExceptionOnFail = FALSE
  /\ rtActions = << >> /\ rtLast = NoLast
DlIdle ==
  /\ dlPc = "idle" /\ dlCall = NoCall /\ dlLog = << >>
  /\ dlSession = [RecycleBinPath |-> EmptyPath, DeleteToRecycleBin |-> FALSE,
                  CurrentDirectory |-> WorkPath]
CfIdle ==
  /\ cfBatchOverwrite = "boNo" /\ cfConfirmOverwriting = TRUE
  /\ cfParams = {} /\ cfLast = NoConfirm
TrIdle ==
  /\ trInTransaction = 0 /\ trReadCurrentDirectoryPending = FALSE
  /\ trReadDirectoryPending = FALSE /\ trActive = TRUE
  /\ trAutoReadDirectory = TRUE /\ trSuspendTransaction = FALSE
  /\ trCommandSession = NoCommandSession
  /\ trLast = NoOp

SsIdle ==
  /\ ssStatus = "ssClosed" /\ ssFileSystem = "null" /\ ssFSProtocol = "cfsUnknown"
  /\ ssTunnel = NoTunnel /\ ssDirectoryChangesCache = "null"
  /\ ssFilesDirectory = "" /\ ssCurrentDirectory = ""
  /\ ssServerDirectory = "" /\ ssLastDirectoryChange = FALSE
  /\ ssData = [Tunnel |-> FALSE, CacheDirectoryChanges |-> FALSE,
               FSProtocol |-> "fsSFTP", RemoteDirectory |-> "",
               NumberOfRetries |-> 0]
  /\ ssConfiguration = [SessionReopenAutoMaximumNumberOfRetries |-> 0]
  /\ ssExceptionOnFail = 0 /\ ssAsked = 0 /\ ssLast = NoSessionOp
DcIdle ==
  /\ dcCache = {} /\ dcLast = NoCacheOp
  /\ dcSession = [CacheDirectories |-> FALSE, AutoReadDirectory |-> TRUE,
                  AutoReadDirectoryAfterOp |-> TRUE, CurrentDirectory |-> WorkPath]
CdIdle ==
  /\ cdBackend = [CurrentDirectory |-> EmptyPath, ServerDirectory |-> EmptyPath,
                  CachedDirectory |-> EmptyPath, Calls |-> << >>, RoundTrips |-> {}]
  /\ cdChangesCache = {}
  /\ cdTerminal = [LockInHome |-> FALSE, CacheDirectoryChanges |-> FALSE,
                   AutoReadDirectory |-> FALSE, Status |-> "ssClosed",
                   LockDirectory |-> EmptyPath, CurrentDirectory |-> EmptyPath,
                   LastDirectoryChange |-> EmptyPath]
  /\ cdLast = NoChange
TuIdle == tuTerminalThread = "terminal" /\ tuLast = NoCallback
ScIdle ==
  /\ scTried = [main |-> FALSE, tunnel |-> FALSE]
  /\ scMain = [main |-> "", tunnel |-> ""] /\ scTunnelOpening = FALSE
  /\ scReplays = [main |-> 0, tunnel |-> 0] /\ scLast = NoPrompt
\* the parts around the terminal's core are at rest
RestIdle == SsIdle /\ DcIdle /\ CdIdle /\ TuIdle /\ ScIdle /\ PfIdle /\ CgIdle /\ SfIdle /\ TtIdle /\ OpIdle /\ RoIdle

InitCollect == SyInit /\ RtIdle /\ DlIdle /\ CfIdle /\ TrIdle /\ RestIdle
NextCollect == CollectAny
SpecCollect == InitCollect /\ [][NextCollect]_vars

NextApply ==
  \/ CollectForApply
  \/ SynchronizeApplyBegin
  \/ SynchronizeApplyGroup
  \/ CopyToLocal
  \/ DeleteFiles
  \/ CopyToRemote
  \/ DeleteLocalFiles
  \/ SynchronizeLocalTimestamp
  \/ SynchronizeRemoteTimestamp
  \/ SynchronizeApplyEnd
SpecApply == InitCollect /\ [][NextApply]_vars

InitRetry == SyIdleTree /\ RtInit /\ DlIdle /\ CfIdle /\ TrIdle /\ RestIdle
NextRetry == AriOperation \/ AnyCommand \/ FileOperationLoop
SpecRetry == InitRetry /\ [][NextRetry]_vars

InitDelete == SyIdleTree /\ RtIdle /\ DlInit /\ CfIdle /\ TrIdle /\ RestIdle
NextDelete == DeleteFile
SpecDelete == InitDelete /\ [][NextDelete]_vars

InitConfirm == SyIdleTree /\ RtIdle /\ DlIdle /\ CfInit /\ TrIdle /\ RestIdle
NextConfirm == ConfirmOverwrite \/ ProcessNextFile
SpecConfirm == InitConfirm /\ [][NextConfirm]_vars

InitTransaction == SyIdleTree /\ RtIdle /\ DlIdle /\ CfIdle /\ TrInit /\ RestIdle
NextTransaction ==
  \/ BeginTransaction
  \/ EndTransaction
  \/ ReactOnCommandCall
  \/ FatalError
SpecTransaction == InitTransaction /\ [][NextTransaction]_vars

\* the session's lifecycle: any sequence of Open, Close, Reopen and fatal
\* errors with the reopen query that follows them
InitSession ==
  /\ PfIdle /\ CgIdle /\ SfIdle /\ TtIdle /\ OpIdle /\ RoIdle
  /\ SyIdleTree /\ RtIdle /\ DlIdle /\ CfIdle /\ SessionInit
  /\ DcIdle /\ CdIdle /\ TuIdle /\ ScIdle
NextSession ==
  \/ Open
  \/ CloseCall
  \/ Reopen
  \/ SessionFatal
  \/ QueryReopen
SpecSession == InitSession /\ [][NextSession]_vars

\* Reopen among the operations that set the fields it saves and restores,
\* for the session without a tunnel
InitReopen == InitSession /\ ~ssData.Tunnel
NextReopen ==
  \/ Open
  \/ CloseCall
  \/ Reopen
  \/ SessionFatal
  \/ QueryReopen
  \/ SessionBegin
  \/ SessionEnd
  \/ SessionChange
  \/ SetExceptionOnFail
SpecReopen == InitReopen /\ [][NextReopen]_vars

\* the operations that change remote files, between listings and changes of
\* the current directory
InitCache ==
  /\ PfIdle /\ CgIdle /\ SfIdle /\ TtIdle /\ OpIdle /\ RoIdle
  /\ SyIdleTree /\ RtIdle /\ DlIdle /\ CfIdle /\ TrIdle /\ SsIdle
  /\ CacheInit /\ CdIdle /\ TuIdle /\ ScIdle
NextCache ==
  \/ CacheReadDirectory
  \/ CacheChangeDirectory
  \/ CacheDeleteFile
  \/ CacheRenameFileName
  \/ CacheRenameFile
  \/ CacheMoveFile
  \/ CacheCopyFile
  \/ CacheCreateDirectory
  \/ CacheCreateLink
  \/ CacheChangeFileProperties
SpecCache == InitCache /\ [][NextCache]_vars

InitTunnelUI ==
  /\ PfIdle /\ CgIdle /\ SfIdle /\ TtIdle /\ OpIdle /\ RoIdle
  /\ SyIdleTree /\ RtIdle /\ DlIdle /\ CfIdle /\ TrIdle
  /\ SsIdle /\ DcIdle /\ CdIdle /\ ScIdle
  /\ TunnelUIInit
NextTunnelUI ==
  \/ TunnelInformation
  \/ TunnelQueryUser
  \/ TunnelQueryUserException
  \/ TunnelPromptUser
  \/ TunnelDisplayBanner
  \/ TunnelFatalError
  \/ TunnelHandleExtendedException
  \/ TunnelClosed
SpecTunnelUI == InitTunnelUI /\ [][NextTunnelUI]_vars

InitSecondary ==
  /\ PfIdle /\ CgIdle /\ SfIdle /\ TtIdle /\ OpIdle /\ RoIdle
  /\ SyIdleTree /\ RtIdle /\ DlIdle /\ CfIdle /\ TrIdle
  /\ SsIdle /\ DcIdle /\ CdIdle /\ TuIdle
  /\ SecondaryInit
NextSecondary ==
  \/ SecondaryDoPromptUser
  \/ SecondaryTunnelOpening
  \/ SecondaryTunnelOpened
  \/ SecondaryReopen
SpecSecondary == InitSecondary /\ [][NextSecondary]_vars

InitChangeDir ==
  /\ PfIdle /\ CgIdle /\ SfIdle /\ TtIdle /\ OpIdle /\ RoIdle
  /\ SyIdleTree /\ RtIdle /\ DlIdle /\ CfIdle /\ TrIdle
  /\ SsIdle /\ DcIdle /\ TuIdle /\ ScIdle
  /\ ChangeInit
NextChangeDir ==
  \/ ChangeDirectory
  \/ ChangeHomeDirectory
  \/ ChangeFileModified
  \/ ChangeOpened
SpecChangeDir == InitChangeDir /\ [][NextChangeDir]_vars

\* bulk operations over lists of files, with every way the per-file
\* operation and the user's answers may go
InitProcessFiles ==
  /\ SyIdleTree /\ RtIdle /\ DlIdle /\ CfIdle /\ TrIdle
  /\ SsIdle /\ DcIdle /\ CdIdle /\ TuIdle /\ ScIdle
  /\ PfInit /\ CgIdle /\ SfIdle /\ TtIdle /\ OpIdle /\ RoIdle
NextProcessFiles ==
  \/ ProcessFilesStart
  \/ ProcessFile
  \/ ProcessFilesEnd
SpecProcessFiles == InitProcessFiles /\ [][NextProcessFiles]_vars

\* callbacks nested within callbacks, fatal errors in them and the ways
\* they end
InitGuard ==
  /\ SyIdleTree /\ RtIdle /\ DlIdle /\ CfIdle /\ TrIdle
  /\ SsIdle /\ DcIdle /\ CdIdle /\ TuIdle /\ ScIdle
  /\ PfIdle /\ CgIdle /\ SfIdle /\ TtIdle /\ OpIdle /\ RoIdle
NextGuard ==
  \/ GuardCallback
  \/ GuardedFatalError
  \/ CallbackThrows
  \/ CallbackCatches
  \/ TerminalDestroy
  \/ CallbackReturns
  \/ CallbackRaises
SpecGuard == InitGuard /\ [][NextGuard]_vars

\* the monitor's filter over every controller and directory
InitFilter ==
  /\ SyIdleTree /\ RtIdle /\ DlIdle /\ CfIdle /\ TrIdle
  /\ SsIdle /\ DcIdle /\ CdIdle /\ TuIdle /\ ScIdle
  /\ PfIdle /\ CgIdle /\ SfInit /\ TtIdle /\ OpIdle /\ RoIdle
NextFilter == SynchronizeFilter
SpecFilter == InitFilter /\ [][NextFilter]_vars

\* the operations of the Terminal that open a transaction
InitOperations ==
  /\ SyIdleTree /\ RtIdle /\ DlIdle /\ CfIdle /\ TrIdle
  /\ SsIdle /\ DcIdle /\ CdIdle /\ TuIdle /\ ScIdle
  /\ PfIdle /\ CgIdle /\ SfIdle /\ TtIdle /\ OpInit /\ RoIdle
NextOperations ==
  \/ TransactedOperation
  \/ MoveFiles
SpecOperations == InitOperations /\ [][NextOperations]_vars

\* the tunnel driver thread and its owner
InitTunnelThread ==
  /\ SyIdleTree /\ RtIdle /\ DlIdle /\ CfIdle /\ TrIdle
  /\ SsIdle /\ DcIdle /\ CdIdle /\ TuIdle /\ ScIdle
  /\ PfIdle /\ CgIdle /\ SfIdle /\ TtIdle /\ OpIdle /\ RoIdle
NextTunnelThread ==
  \/ Terminate
  \/ ExecuteLoop
  \/ IdleReturns
  \/ IdleRaises
  \/ ExecuteCatch
SpecTunnelThread == InitTunnelThread /\ [][NextTunnelThread]_vars

\* the thread is scheduled, and a call of Idle with its timeout ends
SpecTunnelThreadLive ==
  /\ SpecTunnelThread
  /\ WF_vars(ExecuteLoop)
  /\ WF_vars(IdleReturns \/ IdleRaises)
  /\ WF_vars(ExecuteCatch)

\* the files of one transfer: overwrite confirmations and the prompts for
\* read-only local files
InitOverwrite ==
  /\ SyIdleTree /\ RtIdle /\ DlIdle /\ CfInit /\ TrIdle /\ RestIdle
NextOverwrite ==
  \/ ConfirmOverwrite
  \/ ProcessNextFile
  \/ DoCreateLocalFile
SpecOverwrite == InitOverwrite /\ [][NextOverwrite]_vars

\* the loops of Open and QueryReopen, one pass at a time
InitReopenLoops ==
  /\ SyIdleTree /\ RtIdle /\ DlIdle /\ CfIdle
  /\ SessionInitWith(MaxLoopRetries)
  /\ DcIdle /\ CdIdle /\ TuIdle /\ ScIdle
  /\ PfIdle /\ CgIdle /\ SfIdle /\ TtIdle /\ OpIdle /\ RoIdle
NextReopenLoops ==
  \/ OpenCall
  \/ OpenPass
  \/ QueryReopenCall
  \/ ReopenCall
  \/ ReopenEnd
  \/ LoopFatal
  \/ LoopClose
SpecReopenLoops == InitReopenLoops /\ [][NextReopenLoops]_vars

\* an attempt to connect ends, and so does a prompt, whose timeout answers
\* Retry
SpecReopenLoopsLive ==
  /\ SpecReopenLoops
  /\ WF_vars(OpenPass)
  /\ WF_vars(ReopenCall)
  /\ WF_vars(ReopenEnd)

====
